---- MODULE Spec2Model ----
(***************************************************************************)
(* A model of seafuse: the block reader (FileBlockReader / FileReader),    *)
(* the fs-tree walker (FsIterator) and the FUSE adapter (SeafFuse).        *)
(* Every definition is translated from src/src/repo.rs or src/src/fuse.rs. *)
(***************************************************************************)
EXTENDS Integers, Sequences, FiniteSets, TLC

\* ------------------------------------------------------------------ bounds
\* the largest number of blocks of a file
MaxBlocks == 3
\* the largest length of one block object
MaxBlockSize == 2

\* the number of fs objects of a repository (the sentinel apart)
MaxFsObjs == 3
\* the largest number of dirents of a Dir
MaxDirents == 2
\* the largest number of dirents of all the Dirs of a repository together
MaxTreeDirents == 4
\* the largest number of load errors of one walk
MaxLoadErrors == 1

\* the number of file handles issued during a mount
MaxOpens == 2

\* the largest number of entries the scan of the commits directory yields, and
\* the largest ctime of a commit
MaxCommits == 3
MaxCtime == 3

\* the largest number of dirents of a directory that is listed in pieces, and
\* the largest number of entries a reply buffer takes
MaxListDirents == 4
MaxReplyEntries == 2

\* the largest number of characters of a path handed to match_prefix
MaxPathLen == 3

\* the positions and buffer lengths tried: up to one past the largest file
MaxSeek == MaxBlocks * MaxBlockSize + 1
SeekDeltas == (0 - (MaxBlockSize + 1)) .. (MaxBlockSize + 1)

\* ------------------------------------------------------------------ state
VARIABLES
    blockStore,   \* the blocks object store: block id -> the object file, if any
    reader,       \* a FileReader: its FileBlockReader's fields and byte_pos
    rdLast,       \* the last call on the reader and what it returned
    drained,      \* a read-to-end loop over the reader: the bytes so far, and whether it ended
    fsStore,      \* the fs object store: fs id -> the decoded object file, if any
    walker,       \* an FsIterator: its FsItState
    wkLast,       \* the last call on the walker and what it returned
    wkOut,        \* the entries the walker has yielded, in order
    wkHist,       \* what has happened to the walker: the prunes (0, 1, more), where the
                  \* only one came, clears, load errors, loads
    fuse,         \* a SeafFuse: ino_table, open_file_table and the two counters
    fuLast,       \* the last call on the adapter and what it returned
    fuHist,       \* what the adapter has returned so far: file handles, lookup attributes
    commits,      \* the commits directory, as WalkDir enumerates it
    library,      \* what Library::open returned, if it was called
    hex,          \* a string handed to Sha1::parse
    sha1,         \* the last call on a Sha1 and what it returned
    prefix,       \* the prefix path of an extract (the empty path when none is given)
    pmLast,       \* the last call of match_prefix and what it returned
    materialized  \* what an extract has written below its target: the entries it
                  \* extracted, and the directories it created for them

readerOnly == <<reader, rdLast, drained>>
walkerOnly == <<walker, wkLast, wkOut, wkHist>>
readerVars == <<blockStore, reader, rdLast, drained>>
walkerVars == <<fsStore, walker, wkLast, wkOut, wkHist>>
fuseVars == <<fuse, fuLast, fuHist>>
openVars == <<commits, library>>
sha1Vars == <<hex, sha1>>
extractVars == <<prefix, pmLast, materialized>>
\* Library::open, Sha1 and the extractor, which the reader, the walker and the
\* adapter leave alone
toolVars == <<openVars, sha1Vars, extractVars>>
vars == <<blockStore, reader, rdLast, drained, fsStore, walker, wkLast, wkOut, wkHist,
          fuse, fuLast, fuHist, commits, library, hex, sha1, prefix, pmLast,
          materialized>>

\* ------------------------------------------------------------ helpers
Min(a, b) == IF a <= b THEN a ELSE b

RECURSIVE SumSeq(_)
SumSeq(s) == IF s = <<>> THEN 0 ELSE Head(s) + SumSeq(Tail(s))

RECURSIVE Concat(_)
Concat(ss) == IF ss = <<>> THEN <<>> ELSE Head(ss) \o Concat(Tail(ss))

\* an object store entry: the object file's bytes, or no object file at all
NoObject == [exists |-> FALSE, bytes |-> <<>>]
BlockObject(bytes) == [exists |-> TRUE, bytes |-> bytes]

\* the bytes of the block object with id `id` and length n: every byte of every
\* block is different from every other, so that order and offsets are visible
BlockBytes(id, n) == [j \in 1..n |-> 16 * id + (j - 1)]

\* ------------------------------------------------- FileBlockReader (repo.rs)
\* FileBlockReader::new: stat every block, record its length and its start
RECURSIVE NewLoop(_, _, _, _, _, _)
NewLoop(block_ids, store, i, block_sizes, block_starts, pos) ==
    IF i > Len(block_ids)
    THEN [ok |-> TRUE, block_ids |-> block_ids, block_sizes |-> block_sizes,
          block_starts |-> block_starts, size |-> pos]
    ELSE IF ~store[block_ids[i]].exists
    THEN [ok |-> FALSE, block_ids |-> <<>>, block_sizes |-> <<>>,
          block_starts |-> <<>>, size |-> 0]
    ELSE LET l == Len(store[block_ids[i]].bytes)
         IN  NewLoop(block_ids, store, i + 1, Append(block_sizes, l),
                     Append(block_starts, pos), pos + l)

FileBlockReaderNew(block_ids, store) == NewLoop(block_ids, store, 1, <<>>, <<>>, 0)

\* bisection::bisect_right over a[lo..hi) (0-based): the first index whose element
\* is greater than x
RECURSIVE BisectLoop(_, _, _, _)
BisectLoop(a, x, lo, hi) ==
    IF lo < hi
    THEN LET mid == (lo + hi) \div 2
         IN  IF x < a[mid + 1] THEN BisectLoop(a, x, lo, mid)
                               ELSE BisectLoop(a, x, mid + 1, hi)
    ELSE lo

bisect_right(a, x) == BisectLoop(a, x, 0, Len(a))

\* FileBlockReader::find_start_block: [some, block_idx (0-based), block_offset]
NoStartBlock == [some |-> FALSE, block_idx |-> 0, block_offset |-> 0]

\* a find_start_block that bisects to the left of equal starts
RECURSIVE BisectLeftLoop(_, _, _, _)
BisectLeftLoop(a, x, lo, hi) ==
    IF lo < hi
    THEN LET mid == (lo + hi) \div 2
         IN  IF a[mid + 1] < x THEN BisectLeftLoop(a, x, mid + 1, hi)
                               ELSE BisectLeftLoop(a, x, lo, mid)
    ELSE lo

find_start_block_bisect_left(fbr, offset) ==
    LET next_block_idx == BisectLeftLoop(fbr.block_starts, offset, 0, Len(fbr.block_starts))
    IN  IF next_block_idx = 0 THEN NoStartBlock
        ELSE LET block_idx    == next_block_idx - 1
                 block_offset == offset - fbr.block_starts[block_idx + 1]
             IN  IF block_offset < fbr.block_sizes[block_idx + 1]
                 THEN [some |-> TRUE, block_idx |-> block_idx, block_offset |-> block_offset]
                 ELSE NoStartBlock

\* a find_start_block that does not compare block_offset with the block's size
find_start_block_unchecked(fbr, offset) ==
    LET next_block_idx == bisect_right(fbr.block_starts, offset)
    IN  IF next_block_idx = 0 THEN NoStartBlock
        ELSE [some |-> TRUE, block_idx |-> next_block_idx - 1,
              block_offset |-> offset - fbr.block_starts[next_block_idx]]

\* the earlier find_start_block (lib.rs): a scan over block_sizes from the first
\* block on, adding up the sizes in byte_idx
RECURSIVE LinearLoop(_, _, _, _)
LinearLoop(fbr, offset, block_idx, byte_idx) ==
    IF block_idx >= Len(fbr.block_ids) THEN NoStartBlock
    ELSE LET this_size == fbr.block_sizes[block_idx + 1]
         IN  IF byte_idx + this_size > offset
             THEN [some |-> TRUE, block_idx |-> block_idx,
                   block_offset |-> offset - byte_idx]
             ELSE LinearLoop(fbr, offset, block_idx + 1, byte_idx + this_size)

find_start_block_linear(fbr, offset) == LinearLoop(fbr, offset, 0, 0)

find_start_block(fbr, offset) ==
    LET next_block_idx == bisect_right(fbr.block_starts, offset)
    IN  IF next_block_idx = 0 THEN NoStartBlock
        ELSE LET block_idx    == next_block_idx - 1
                 block_start  == fbr.block_starts[block_idx + 1]
                 block_offset == offset - block_start
                 block_size   == fbr.block_sizes[block_idx + 1]
             IN  IF block_offset < block_size
                 THEN [some |-> TRUE, block_idx |-> block_idx, block_offset |-> block_offset]
                 ELSE NoStartBlock

\* a loop that keeps the first block's block_offset for the blocks after it
RECURSIVE ReadLoop_keep_offset(_, _, _, _, _, _, _)
ReadLoop_keep_offset(fbr, store, block_idx, block_offset, have_read, to_read, buf) ==
    IF have_read < to_read /\ block_idx < Len(fbr.block_ids)
    THEN LET k == Min(to_read - have_read,
                      IF fbr.block_sizes[block_idx + 1] > block_offset
                      THEN fbr.block_sizes[block_idx + 1] - block_offset ELSE 0)
         IN  ReadLoop_keep_offset(fbr, store, block_idx + 1, block_offset, have_read + k,
                                  to_read,
                                  buf \o SubSeq(store[fbr.block_ids[block_idx + 1]].bytes,
                                                block_offset + 1, block_offset + k))
    ELSE [ok |-> TRUE, n |-> have_read, data |-> buf]

\* the loop of read_at_offset: open the block, seek to block_offset, read_exact
RECURSIVE ReadLoop(_, _, _, _, _, _, _)
ReadLoop(fbr, store, block_idx, block_offset, have_read, to_read, buf) ==
    IF have_read < to_read /\ block_idx < Len(fbr.block_ids)
    THEN LET this_block_size    == fbr.block_sizes[block_idx + 1]
             to_read_this_block == Min(to_read - have_read, this_block_size - block_offset)
             file               == store[fbr.block_ids[block_idx + 1]]
         IN  IF ~file.exists
             THEN [ok |-> FALSE, n |-> 0, data |-> <<>>]
             ELSE IF to_read_this_block > 0
                     /\ block_offset + to_read_this_block > Len(file.bytes)
             THEN [ok |-> FALSE, n |-> 0, data |-> <<>>]
             ELSE ReadLoop(fbr, store, block_idx + 1, 0, have_read + to_read_this_block,
                           to_read,
                           buf \o SubSeq(file.bytes, block_offset + 1,
                                         block_offset + to_read_this_block))
    ELSE [ok |-> TRUE, n |-> have_read, data |-> buf]

\* a read_at_offset that returns at the end of the block it started in
read_at_offset_one_block(fbr, store, offset, to_read) ==
    LET sb == find_start_block(fbr, offset)
    IN  IF ~sb.some THEN [ok |-> TRUE, n |-> 0, data |-> <<>>]
        ELSE LET k == Min(to_read, fbr.block_sizes[sb.block_idx + 1] - sb.block_offset)
             IN  [ok |-> TRUE, n |-> k,
                  data |-> SubSeq(store[fbr.block_ids[sb.block_idx + 1]].bytes,
                                  sb.block_offset + 1, sb.block_offset + k)]

\* FileBlockReader::read_at_offset with a buffer of length to_read
read_at_offset(fbr, store, offset, to_read) ==
    LET sb == find_start_block(fbr, offset)
    IN  IF ~sb.some THEN [ok |-> TRUE, n |-> 0, data |-> <<>>]
        ELSE ReadLoop(fbr, store, sb.block_idx, sb.block_offset, 0, to_read, <<>>)

\* ------------------------------------------------------ FileReader (repo.rs)
\* FileReader::new
FileReaderNew(fbr) == [block_reader |-> fbr, byte_pos |-> 0]

\* a read that moves byte_pos by the length of the buffer when it fails
FileReaderRead_advance_on_error(fr, store, to_read) ==
    LET r == read_at_offset(fr.block_reader, store, fr.byte_pos, to_read)
    IN  IF r.ok
        THEN [reader |-> [fr EXCEPT !.byte_pos = fr.byte_pos + r.n],
              ok |-> TRUE, n |-> r.n, data |-> r.data]
        ELSE [reader |-> [fr EXCEPT !.byte_pos = fr.byte_pos + to_read],
              ok |-> FALSE, n |-> 0, data |-> <<>>]

\* Read for FileReader: [reader, ok, n, data]
FileReaderRead(fr, store, to_read) ==
    LET r == read_at_offset(fr.block_reader, store, fr.byte_pos, to_read)
    IN  IF r.ok
        THEN [reader |-> [fr EXCEPT !.byte_pos = fr.byte_pos + r.n],
              ok |-> TRUE, n |-> r.n, data |-> r.data]
        ELSE [reader |-> fr, ok |-> FALSE, n |-> 0, data |-> <<>>]

\* u64 arithmetic, scaled down to 20 bits: every size and position of the model
\* is far below 2^20, but for the positions that come from a cast
U64 == 2 ^ 20
\* `offset as u64` of an i64
AsU64(offset) == offset % U64
\* `pos as i64` of a u64
AsI64(pos) == IF pos >= U64 \div 2 THEN pos - U64 ELSE pos

\* Seek for FileReader: [reader, ok, pos]. The sums of the arguments tried stay
\* within i64
FileReaderSeek(fr, from, o) ==
    LET new_pos == CASE from = "Start"   -> o
                     [] from = "End"     -> AsI64(fr.block_reader.size) + o
                     [] from = "Current" -> AsI64(fr.byte_pos) + o
    IN  IF from # "Start" /\ new_pos < 0
        THEN [reader |-> fr, ok |-> FALSE, pos |-> 0]
        ELSE [reader |-> [fr EXCEPT !.byte_pos = AsU64(new_pos)], ok |-> TRUE,
              pos |-> AsU64(new_pos)]

\* ------------------------------------------------------ fs objects (repo.rs)
\* const EMPTY_SHA1: the all-zero hash
EMPTY_SHA1 == 0

\* FsJson::File(FileJson) and FsJson::Dir(DirJson) as decoded from an object file
FileJson(block_ids, size) ==
    [exists |-> TRUE, kind |-> "File", dirents |-> <<>>, block_ids |-> block_ids, size |-> size]
DirJson(dirents) ==
    [exists |-> TRUE, kind |-> "Dir", dirents |-> dirents, block_ids |-> <<>>, size |-> 0]
NoFsObject ==
    [exists |-> FALSE, kind |-> "", dirents |-> <<>>, block_ids |-> <<>>, size |-> 0]
\* const EMPTY_DIR_JSON
EMPTY_DIR_JSON == DirJson(<<>>)

DirentJson(id, name) == [id |-> id, name |-> name]

\* Library::load_fs: [ok, fs]. `bad` are the ids whose object file cannot be read
\* or decoded at this call
\* a load_fs for which the all-zero hash is an object like any other, and
\* one that has no object file
load_fs_reads_sentinel(store, bad, id) ==
    IF id = EMPTY_SHA1 \/ id \in bad \/ ~store[id].exists
    THEN [ok |-> FALSE, fs |-> NoFsObject]
    ELSE [ok |-> TRUE, fs |-> store[id]]

load_fs(store, bad, id) ==
    IF id = EMPTY_SHA1 THEN [ok |-> TRUE, fs |-> EMPTY_DIR_JSON]
    ELSE IF id \in bad \/ ~store[id].exists THEN [ok |-> FALSE, fs |-> NoFsObject]
    ELSE [ok |-> TRUE, fs |-> store[id]]

\* ------------------------------------------------------ FsIterator (repo.rs)
\* PathBuf::push of a single component, PathBuf::pop
PathPush(path, name) == Append(path, name)
PathPop(path) == IF path = <<>> THEN path ELSE SubSeq(path, 1, Len(path) - 1)
\* Vec::pop: the vector without its last item (unchanged when empty)
VecPop(v) == IF v = <<>> THEN v ELSE SubSeq(v, 1, Len(v) - 1)

\* FsIterator::new
FsIteratorNew(root_id) ==
    [tag |-> "Root", root_id |-> root_id, stack |-> <<>>, path |-> <<>>]
\* FsItState::NotRoot(FsItNrState {stack, path}); the stack holds each Dir's dirents
NotRoot(stack, path) ==
    [tag |-> "NotRoot", root_id |-> EMPTY_SHA1, stack |-> stack, path |-> path]

NoDirent == DirentJson(EMPTY_SHA1, 0)
\* what next_result returns, with the state it leaves and the ids it loaded
NextResult(state, ret, path_before, de, kind, loads) ==
    [state |-> state, ret |-> ret, path_before |-> path_before, de |-> de,
     kind |-> kind, loads |-> loads]

\* a loop that yields a Dir without descending into it
RECURSIVE WalkLoop_no_descend(_, _, _, _, _)
WalkLoop_no_descend(store, bad, stack, path, loads) ==
    IF stack = <<>> THEN NextResult(NotRoot(stack, path), "none", <<>>, NoDirent, "", loads)
    ELSE LET top == stack[Len(stack)]
         IN  IF top # <<>>
             THEN LET de == top[Len(top)]
                      fs == load_fs(store, bad, de.id)
                  IN  NextResult(NotRoot([stack EXCEPT ![Len(stack)] = VecPop(top)], path),
                                 IF fs.ok THEN "item" ELSE "err", path, de, fs.fs.kind,
                                 Append(loads, de.id))
             ELSE WalkLoop_no_descend(store, bad, VecPop(stack), PathPop(path), loads)

\* a loop that takes the first dirent of the top frame, not the last
RECURSIVE WalkLoop_stored_order(_, _, _, _, _)
WalkLoop_stored_order(store, bad, stack, path, loads) ==
    IF stack = <<>> THEN NextResult(NotRoot(stack, path), "none", <<>>, NoDirent, "", loads)
    ELSE LET top == stack[Len(stack)]
         IN  IF top # <<>>
             THEN LET de     == top[1]
                      popped == [stack EXCEPT ![Len(stack)] = Tail(top)]
                      fs     == load_fs(store, bad, de.id)
                      loaded == Append(loads, de.id)
                  IN  IF ~fs.ok
                      THEN NextResult(NotRoot(popped, path), "err", <<>>, de, "", loaded)
                      ELSE IF fs.fs.kind = "Dir"
                      THEN NextResult(NotRoot(Append(popped, fs.fs.dirents),
                                              PathPush(path, de.name)),
                                      "item", path, de, "Dir", loaded)
                      ELSE NextResult(NotRoot(popped, path), "item", path, de, "File", loaded)
             ELSE WalkLoop_stored_order(store, bad, VecPop(stack), PathPop(path), loads)

\* a loop that leaves the path as it is when it pops an exhausted frame
RECURSIVE WalkLoop_keep_path(_, _, _, _, _)
WalkLoop_keep_path(store, bad, stack, path, loads) ==
    IF stack = <<>> THEN NextResult(NotRoot(stack, path), "none", <<>>, NoDirent, "", loads)
    ELSE LET top == stack[Len(stack)]
         IN  IF top # <<>>
             THEN LET de     == top[Len(top)]
                      popped == [stack EXCEPT ![Len(stack)] = VecPop(top)]
                      fs     == load_fs(store, bad, de.id)
                      loaded == Append(loads, de.id)
                  IN  IF ~fs.ok
                      THEN NextResult(NotRoot(popped, path), "err", <<>>, de, "", loaded)
                      ELSE IF fs.fs.kind = "Dir"
                      THEN NextResult(NotRoot(Append(popped, fs.fs.dirents),
                                              PathPush(path, de.name)),
                                      "item", path, de, "Dir", loaded)
                      ELSE NextResult(NotRoot(popped, path), "item", path, de, "File", loaded)
             ELSE WalkLoop_keep_path(store, bad, VecPop(stack), path, loads)

\* the while loop of next_result
RECURSIVE WalkLoop(_, _, _, _, _)
WalkLoop(store, bad, stack, path, loads) ==
    IF stack = <<>> THEN NextResult(NotRoot(stack, path), "none", <<>>, NoDirent, "", loads)
    ELSE LET top == stack[Len(stack)]
         IN  IF top # <<>>
             THEN LET de     == top[Len(top)]
                      popped == [stack EXCEPT ![Len(stack)] = VecPop(top)]
                      fs     == load_fs(store, bad, de.id)
                      loaded == Append(loads, de.id)
                  IN  IF ~fs.ok
                      THEN NextResult(NotRoot(popped, path), "err", <<>>, de, "", loaded)
                      ELSE IF fs.fs.kind = "Dir"
                      THEN NextResult(NotRoot(Append(popped, fs.fs.dirents),
                                              PathPush(path, de.name)),
                                      "item", path, de, "Dir", loaded)
                      ELSE NextResult(NotRoot(popped, path), "item", path, de, "File", loaded)
             ELSE WalkLoop(store, bad, VecPop(stack), PathPop(path), loads)

\* FsIterator::next_result
next_result(store, bad, state) ==
    IF state.tag = "Root"
    THEN LET d == load_fs(store, bad, state.root_id)
         IN  IF ~d.ok
             THEN NextResult(state, "err", <<>>, NoDirent, "", <<state.root_id>>)
             ELSE WalkLoop(store, bad, <<d.fs.dirents>>, <<>>, <<state.root_id>>)
    ELSE WalkLoop(store, bad, state.stack, state.path, <<>>)

\* a clear that does nothing before the first next
FsIteratorClear_root_noop(state) ==
    IF state.tag = "Root" THEN state ELSE NotRoot(<<>>, <<>>)

\* a clear that starts the walk over
FsIteratorClear_rewind(state) == FsIteratorNew(1)

\* FsIterator::clear
FsIteratorClear(state) == NotRoot(<<>>, <<>>)

\* a prune that does nothing before the first next
FsIteratorPrune_root_noop(state) ==
    IF state.tag = "Root" THEN state
    ELSE NotRoot(VecPop(state.stack), PathPop(state.path))

\* a prune that pops the stack and leaves the path
FsIteratorPrune_keep_path(state) ==
    IF state.tag = "Root" THEN FsIteratorClear(state)
    ELSE NotRoot(VecPop(state.stack), state.path)

\* a prune that pops the path and leaves the stack
FsIteratorPrune_keep_stack(state) ==
    IF state.tag = "Root" THEN FsIteratorClear(state)
    ELSE NotRoot(state.stack, PathPop(state.path))

\* a prune that moves two steps up
FsIteratorPrune_two_frames(state) ==
    IF state.tag = "Root" THEN FsIteratorClear(state)
    ELSE NotRoot(VecPop(VecPop(state.stack)), PathPop(PathPop(state.path)))

\* FsIterator::prune
FsIteratorPrune(state) ==
    IF state.tag = "Root" THEN FsIteratorClear(state)
    ELSE NotRoot(VecPop(state.stack), PathPop(state.path))

\* ------------------------------------------------------ SeafFuse (fuse.rs)
\* fuser::FUSE_ROOT_ID
FUSE_ROOT_ID == 1

\* libc error numbers, and "" for Ok
Ok == ""
EBADF == "EBADF"
EINVAL == "EINVAL"
EIO == "EIO"
ENOENT == "ENOENT"
ENOTDIR == "ENOTDIR"


\* a name that is not valid UTF-8: name.to_str() is None
NotUtf8 == 0

\* BiMap::get_by_left, get_by_right, insert (which overwrites a pair that holds
\* the same left or the same right value)
get_by_left(t, l) == {p \in t : p[1] = l}
get_by_right(t, r) == {p \in t : p[2] = r}
BiMapInsert(t, l, r) == {p \in t : p[1] # l /\ p[2] # r} \cup {<<l, r>>}

\* HashMap::insert, HashMap::remove
HashMapInsert(t, k, v) == [h \in DOMAIN t \cup {k} |-> IF h = k THEN v ELSE t[h]]
HashMapRemove(t, k) == [h \in DOMAIN t \ {k} |-> t[h]]

\* SeafFuse::new
SeafFuseNew(root_id) ==
    [ino_table |-> {<<FUSE_ROOT_ID, root_id>>}, open_file_table |-> <<>>,
     ino_counter |-> FUSE_ROOT_ID + 1, file_handle_counter |-> 1]

\* the FileAttr built by lookup_attr_by_ino
FileAttr(ino, size, kind, perm) ==
    [ino |-> ino, size |-> size, blocks |-> 0, atime |-> "UNIX_EPOCH",
     mtime |-> "UNIX_EPOCH", ctime |-> "UNIX_EPOCH", crtime |-> "UNIX_EPOCH",
     kind |-> kind, perm |-> perm, nlink |-> 1, uid |-> 0, gid |-> 0, rdev |-> 0,
     blksize |-> 0, flags |-> 0]
NoAttr == FileAttr(0, 0, "", 0)

\* struct Dentry
Dentry(ino, kind, name) == [ino |-> ino, kind |-> kind, name |-> name]

\* what an operation returns (err = Ok or an error number), with the SeafFuse it
\* leaves; faulted: an object file could not be read during the call
Reply(f, err, faulted) ==
    [fuse |-> f, err |-> err, faulted |-> faulted, attr |-> NoAttr, fh |-> 0,
     data |-> <<>>, entries |-> <<>>]

\* a lookup_id_by_ino that answers ENOENT for an unknown number
lookup_id_by_ino_enoent(f, ino) ==
    IF get_by_left(f.ino_table, ino) = {} THEN [err |-> ENOENT, id |-> EMPTY_SHA1]
    ELSE [err |-> Ok, id |-> (CHOOSE p \in get_by_left(f.ino_table, ino) : TRUE)[2]]

\* SeafFuse::lookup_id_by_ino
lookup_id_by_ino(f, ino) ==
    IF get_by_left(f.ino_table, ino) = {} THEN [err |-> EIO, id |-> EMPTY_SHA1]
    ELSE [err |-> Ok, id |-> (CHOOSE p \in get_by_left(f.ino_table, ino) : TRUE)[2]]

\* an add_ino that allocates a number at every call
add_ino_always_new(f, id) ==
    [fuse |-> [f EXCEPT !.ino_counter = @ + 1,
                        !.ino_table = BiMapInsert(@, f.ino_counter, id)],
     ino |-> f.ino_counter]

\* an add_ino that leaves a number out at every allocation
add_ino_step_two(f, id) ==
    IF get_by_right(f.ino_table, id) # {}
    THEN [fuse |-> f, ino |-> (CHOOSE p \in get_by_right(f.ino_table, id) : TRUE)[1]]
    ELSE [fuse |-> [f EXCEPT !.ino_counter = @ + 2,
                             !.ino_table = BiMapInsert(@, f.ino_counter + 1, id)],
          ino |-> f.ino_counter + 1]

\* SeafFuse::add_ino
add_ino(f, id) ==
    IF get_by_right(f.ino_table, id) # {}
    THEN [fuse |-> f, ino |-> (CHOOSE p \in get_by_right(f.ino_table, id) : TRUE)[1]]
    ELSE [fuse |-> [f EXCEPT !.ino_counter = @ + 1,
                             !.ino_table = BiMapInsert(@, f.ino_counter, id)],
          ino |-> f.ino_counter]

\* SeafFuse::lookup_fs, lookup_file, lookup_dir
lookup_fs(store, bad, id) ==
    LET r == load_fs(store, bad, id)
    IN  [err |-> IF r.ok THEN Ok ELSE EINVAL, faulted |-> ~r.ok, fs |-> r.fs]

\* a lookup_file that takes a Dir for a File
lookup_file_any(store, bad, id) == lookup_fs(store, bad, id)

\* a lookup_dir that answers EINVAL for a File
lookup_dir_einval(store, bad, id) ==
    LET r == lookup_fs(store, bad, id)
    IN  IF r.err = Ok /\ r.fs.kind # "Dir"
        THEN [err |-> EINVAL, faulted |-> FALSE, fs |-> NoFsObject] ELSE r

lookup_file(store, bad, id) ==
    LET r == lookup_fs(store, bad, id)
    IN  IF r.err = Ok /\ r.fs.kind # "File"
        THEN [err |-> EINVAL, faulted |-> FALSE, fs |-> NoFsObject] ELSE r

lookup_dir(store, bad, id) ==
    LET r == lookup_fs(store, bad, id)
    IN  IF r.err = Ok /\ r.fs.kind # "Dir"
        THEN [err |-> ENOTDIR, faulted |-> FALSE, fs |-> NoFsObject] ELSE r

\* a lookup_attr_by_ino that gives a File the attributes of a Dir but its kind
lookup_attr_by_ino_dir_attr(f, store, bad, ino) ==
    LET i == lookup_id_by_ino(f, ino)
    IN  IF i.err # Ok THEN Reply(f, i.err, FALSE)
        ELSE LET fs == lookup_fs(store, bad, i.id)
             IN  IF fs.err # Ok THEN Reply(f, fs.err, fs.faulted)
                 ELSE [Reply(f, Ok, FALSE) EXCEPT
                         !.attr = FileAttr(ino, 0,
                                           IF fs.fs.kind = "Dir" THEN "Directory"
                                                                 ELSE "RegularFile",
                                           493)]

\* SeafFuse::lookup_attr_by_ino
lookup_attr_by_ino(f, store, bad, ino) ==
    LET i == lookup_id_by_ino(f, ino)
    IN  IF i.err # Ok THEN Reply(f, i.err, FALSE)
        ELSE LET fs == lookup_fs(store, bad, i.id)
             IN  IF fs.err # Ok THEN Reply(f, fs.err, fs.faulted)
                 ELSE IF fs.fs.kind = "Dir"
                 THEN [Reply(f, Ok, FALSE) EXCEPT
                         !.attr = FileAttr(ino, 0, "Directory", 493)]
                 ELSE [Reply(f, Ok, FALSE) EXCEPT
                         !.attr = FileAttr(ino, fs.fs.size, "RegularFile", 420)]

\* a lookup_attr_by_id that answers without keeping the inode it allocated
lookup_attr_by_id_unregistered(f, store, bad, id) ==
    LET a == add_ino(f, id)
    IN  [lookup_attr_by_ino(a.fuse, store, bad, a.ino) EXCEPT !.fuse = f]

\* SeafFuse::lookup_attr_by_id
lookup_attr_by_id(f, store, bad, id) ==
    LET a == add_ino(f, id)
    IN  lookup_attr_by_ino(a.fuse, store, bad, a.ino)

\* SeafFuse::get_open_file
get_open_file(f, fh) == IF fh \in DOMAIN f.open_file_table THEN Ok ELSE EBADF

\* the for loop of do_lookup: the first dirent of that name
RECURSIVE LookupLoop(_, _, _, _, _, _)
LookupLoop(f, store, bad, dirents, i, name) ==
    IF i > Len(dirents) THEN Reply(f, ENOENT, FALSE)
    ELSE IF name = NotUtf8 \/ dirents[i].name # name
    THEN LookupLoop(f, store, bad, dirents, i + 1, name)
    ELSE lookup_attr_by_id(f, store, bad, dirents[i].id)

\* a do_lookup that takes the last dirent of that name
do_lookup_last(f, store, bad, parent_ino, name) ==
    LET parent_id == lookup_id_by_ino(f, parent_ino)
    IN  IF parent_id.err # Ok THEN Reply(f, parent_id.err, FALSE)
        ELSE LET parent_dir == lookup_dir(store, bad, parent_id.id)
                 dirents == parent_dir.fs.dirents
                 found == {i \in 1..Len(dirents) :
                             name # NotUtf8 /\ dirents[i].name = name}
             IN  IF parent_dir.err # Ok THEN Reply(f, parent_dir.err, parent_dir.faulted)
                 ELSE IF found = {} THEN Reply(f, ENOENT, FALSE)
                 ELSE lookup_attr_by_id(f, store, bad,
                        dirents[CHOOSE i \in found : \A j \in found : j <= i].id)

\* PreFilesystem::do_lookup
do_lookup(f, store, bad, parent_ino, name) ==
    LET parent_id == lookup_id_by_ino(f, parent_ino)
    IN  IF parent_id.err # Ok THEN Reply(f, parent_id.err, FALSE)
        ELSE LET parent_dir == lookup_dir(store, bad, parent_id.id)
             IN  IF parent_dir.err # Ok THEN Reply(f, parent_dir.err, parent_dir.faulted)
                 ELSE LookupLoop(f, store, bad, parent_dir.fs.dirents, 1, name)

\* PreFilesystem::do_getattr
do_getattr(f, store, bad, ino) == lookup_attr_by_ino(f, store, bad, ino)

\* the for loop of do_readdir
RECURSIVE ReaddirLoop(_, _, _, _, _, _)
ReaddirLoop(f, store, bad, dirents, i, results) ==
    IF i > Len(dirents) THEN [Reply(f, Ok, FALSE) EXCEPT !.entries = results]
    ELSE LET de    == dirents[i]
             a     == add_ino(f, de.id)
             de_fs == load_fs(store, bad, de.id)
         IN  IF ~de_fs.ok THEN Reply(a.fuse, EIO, TRUE)
             ELSE ReaddirLoop(a.fuse, store, bad, dirents, i + 1,
                              Append(results,
                                     Dentry(a.ino,
                                            IF de_fs.fs.kind = "Dir" THEN "Directory"
                                                                     ELSE "RegularFile",
                                            de.name)))

\* a do_readdir that lists the dirents from the last to the first
do_readdir_reversed(f, store, bad, ino) ==
    LET id == lookup_id_by_ino(f, ino)
    IN  IF id.err # Ok THEN Reply(f, id.err, FALSE)
        ELSE LET dir == lookup_dir(store, bad, id.id)
                 n   == Len(dir.fs.dirents)
             IN  IF dir.err # Ok THEN Reply(f, dir.err, dir.faulted)
                 ELSE ReaddirLoop(f, store, bad,
                                  [i \in 1..n |-> dir.fs.dirents[n + 1 - i]], 1, <<>>)

\* PreFilesystem::do_readdir
do_readdir(f, store, bad, ino) ==
    LET id == lookup_id_by_ino(f, ino)
    IN  IF id.err # Ok THEN Reply(f, id.err, FALSE)
        ELSE LET dir == lookup_dir(store, bad, id.id)
             IN  IF dir.err # Ok THEN Reply(f, dir.err, dir.faulted)
                 ELSE ReaddirLoop(f, store, bad, dir.fs.dirents, 1, <<>>)

\* the while loop of do_open: skip the handles in use
RECURSIVE ProbeLoop(_)
ProbeLoop(f) ==
    IF f.file_handle_counter \in DOMAIN f.open_file_table
    THEN ProbeLoop([f EXCEPT !.file_handle_counter = @ + 1])
    ELSE f

\* a do_open that takes its handle before it looks the inode up
OpenProbed_takes_handle(p, store, blocks, bad, ino) ==
    LET q  == [p EXCEPT !.file_handle_counter = @ + 1]
        id == lookup_id_by_ino(p, ino)
    IN  IF id.err # Ok THEN Reply(q, id.err, FALSE)
        ELSE LET file == lookup_file(store, bad, id.id)
             IN  IF file.err # Ok THEN Reply(q, file.err, file.faulted)
                 ELSE LET fbr == FileBlockReaderNew(file.fs.block_ids, blocks)
                      IN  IF ~fbr.ok THEN Reply(q, EIO, TRUE)
                          ELSE LET fh == p.file_handle_counter
                               IN  [Reply([q EXCEPT
                                             !.open_file_table =
                                                HashMapInsert(@, fh,
                                                    [reader |-> FileReaderNew(fbr)])],
                                          Ok, FALSE)
                                    EXCEPT !.fh = fh]

\* the rest of do_open, from the probed SeafFuse p
OpenProbed(p, store, blocks, bad, ino) ==
    LET id == lookup_id_by_ino(p, ino)
    IN  IF id.err # Ok THEN Reply(p, id.err, FALSE)
        ELSE LET file == lookup_file(store, bad, id.id)
             IN  IF file.err # Ok THEN Reply(p, file.err, file.faulted)
                 ELSE LET fbr == FileBlockReaderNew(file.fs.block_ids, blocks)
                      IN  IF ~fbr.ok THEN Reply(p, EIO, TRUE)
                          ELSE LET fh == p.file_handle_counter
                               IN  [Reply([p EXCEPT
                                             !.file_handle_counter = @ + 1,
                                             !.open_file_table =
                                                HashMapInsert(@, fh,
                                                    [reader |-> FileReaderNew(fbr)])],
                                          Ok, FALSE)
                                    EXCEPT !.fh = fh]

\* a do_open that hands out the smallest handle not in use
do_open_lowest_free(f, store, blocks, bad, ino) ==
    LET free == CHOOSE h \in 1..(Cardinality(DOMAIN f.open_file_table) + 1) :
                    /\ h \notin DOMAIN f.open_file_table
                    /\ \A g \in 1..(h - 1) : g \in DOMAIN f.open_file_table
    IN  OpenProbed([f EXCEPT !.file_handle_counter = free], store, blocks, bad, ino)

\* PreFilesystem::do_open
do_open(f, store, blocks, bad, ino) == OpenProbed(ProbeLoop(f), store, blocks, bad, ino)

\* a do_release that answers Ok and keeps the entry
do_release_keep(f, fh) ==
    IF fh \in DOMAIN f.open_file_table THEN Reply(f, Ok, FALSE)
    ELSE Reply(f, EBADF, FALSE)

\* a do_release that answers Ok for a handle that is not open
do_release_idempotent(f, fh) ==
    Reply([f EXCEPT !.open_file_table = HashMapRemove(@, fh)], Ok, FALSE)

\* PreFilesystem::do_release
do_release(f, fh) ==
    IF fh \in DOMAIN f.open_file_table
    THEN Reply([f EXCEPT !.open_file_table = HashMapRemove(@, fh)], Ok, FALSE)
    ELSE Reply(f, EBADF, FALSE)

\* a do_read that reads on from where the handle's reader stands
do_read_no_seek(f, blocks, fh, offset, size) ==
    IF get_open_file(f, fh) # Ok THEN Reply(f, EBADF, FALSE)
    ELSE LET of == f.open_file_table[fh]
             r  == FileReaderRead(of.reader, blocks, size)
             g  == [f EXCEPT !.open_file_table[fh] = [reader |-> r.reader]]
         IN  IF ~r.ok THEN Reply(g, EIO, TRUE)
             ELSE [Reply(g, Ok, FALSE) EXCEPT !.data = r.data]

\* PreFilesystem::do_read: seek(SeekFrom::Start(offset as u64)), then one read
\* into a buffer of `size` bytes; the reader in the table keeps the position
do_read(f, blocks, fh, offset, size) ==
    IF get_open_file(f, fh) # Ok THEN Reply(f, EBADF, FALSE)
    ELSE LET of == f.open_file_table[fh]
             s  == FileReaderSeek(of.reader, "Start", AsU64(offset))
         IN  IF ~s.ok THEN Reply(f, EINVAL, FALSE)
             ELSE LET r == FileReaderRead(s.reader, blocks, size)
                      g == [f EXCEPT !.open_file_table[fh] = [reader |-> r.reader]]
                  IN  IF ~r.ok THEN Reply(g, EIO, TRUE)
                      ELSE [Reply(g, Ok, FALSE) EXCEPT !.data = r.data]

\* ReplyDirectory::add into a buffer that takes `cap` entries: true, and the
\* entry not added, when the buffer is full
ReplyAdd(buf, cap, ino, offset, kind, name) ==
    IF Len(buf) >= cap THEN [full |-> TRUE, buf |-> buf]
    ELSE [full |-> FALSE,
          buf |-> Append(buf, [ino |-> ino, offset |-> offset, kind |-> kind,
                               name |-> name])]

\* the for loop of Filesystem::readdir, from the dentry of index i on
RECURSIVE ReplyLoop(_, _, _, _, _)
ReplyLoop(dentries, i, offset, cap, buf) ==
    IF i > Len(dentries) THEN buf
    ELSE IF i <= offset THEN ReplyLoop(dentries, i + 1, offset, cap, buf)
    ELSE LET d == dentries[i]
             a == ReplyAdd(buf, cap, d.ino, i, d.kind, d.name)
         IN  IF a.full THEN a.buf
             ELSE ReplyLoop(dentries, i + 1, offset, cap, a.buf)

\* a Filesystem::readdir that skips the entries whose index is below offset
readdir_skip_below(f, store, bad, ino, offset, cap) ==
    LET r == do_readdir(f, store, bad, ino)
    IN  IF r.err # Ok THEN r
        ELSE [r EXCEPT !.entries = ReplyLoop(r.entries, 1, offset - 1, cap, <<>>)]

\* Filesystem::readdir, with a reply buffer that takes `cap` entries
readdir(f, store, bad, ino, offset, cap) ==
    LET r == do_readdir(f, store, bad, ino)
    IN  IF r.err # Ok THEN r
        ELSE [r EXCEPT !.entries = ReplyLoop(r.entries, 1, offset, cap, <<>>)]

\* ------------------------------------------------- the walker's specification
FsIds == 1..MaxFsObjs
\* the head commit's root_id
RootId == 1

\* the dirents a Dir may hold: up to MaxDirents, the i-th named i, each the id of
\* an object or the sentinel
DirentSeqs(targets) ==
    UNION {{[i \in 1..n |-> DirentJson(t[i], i)] : t \in [1..n -> targets]} :
             n \in 0..MaxDirents}

\* a content-addressed store has no cycles: an object refers to later ids only
FsNodes(id) ==
    {DirJson(ds) : ds \in DirentSeqs(((id + 1)..MaxFsObjs) \cup {EMPTY_SHA1})}
        \cup (IF id = RootId THEN {} ELSE {FileJson(<<>>, 0)})

\* the stores over the ids from `id` on that hold at most `budget` dirents in all
RECURSIVE FsStoresFrom(_, _)
FsStoresFrom(id, budget) ==
    IF id > MaxFsObjs THEN {<<>>}
    ELSE UNION {{<<n>> \o s : s \in FsStoresFrom(id + 1, budget - Len(n.dirents))} :
                  n \in {m \in FsNodes(id) : Len(m.dirents) <= budget}}

\* the ids a store's root reaches
RECURSIVE ReachFrom(_, _)
ReachFrom(store, id) ==
    IF id = EMPTY_SHA1 THEN {}
    ELSE {id} \cup UNION {ReachFrom(store, store[id].dirents[i].id) :
                            i \in 1..Len(store[id].dirents)}

\* the repositories tried: an object the root does not reach is left a File
FsStores ==
    {s \in FsStoresFrom(1, MaxTreeDirents) :
       \A id \in FsIds \ ReachFrom(s, RootId) : s[id] = FileJson(<<>>, 0)}

NoWalkerCall ==
    [call |-> "new", ret |-> "", path_before |-> <<>>, de |-> NoDirent, kind |-> "",
     loads |-> <<>>]
NoHist ==
    [prunes |-> 0, pruneAt |-> 0, pruneAfterYield |-> FALSE, cleared |-> FALSE,
     errors |-> 0, loaded |-> FALSE, ended |-> FALSE, clearedLive |-> FALSE]

\* no walker is in use
WalkerUnused ==
    /\ walker = FsIteratorNew(EMPTY_SHA1)
    /\ wkLast = NoWalkerCall
    /\ wkOut = <<>>
    /\ wkHist = NoHist

WalkerIdle ==
    /\ fsStore = <<>>
    /\ WalkerUnused

\* ------------------------------------------------- Library::open (repo.rs)
\* struct CommitJson: the fields Library::open and the walker read
CommitJson(commit_id, root_id, ctime) ==
    [commit_id |-> commit_id, root_id |-> root_id, ctime |-> ctime]
NoCommit == CommitJson(EMPTY_SHA1, EMPTY_SHA1, 0)

\* what WalkDir yields: an error, a directory, or a file, which parse_commit_file
\* decodes or not
WalkErr == [kind |-> "err", parsed |-> FALSE, commit |-> NoCommit]
WalkDirectory == [kind |-> "dir", parsed |-> FALSE, commit |-> NoCommit]
WalkBadFile == [kind |-> "file", parsed |-> FALSE, commit |-> NoCommit]
WalkCommit(c) == [kind |-> "file", parsed |-> TRUE, commit |-> c]

\* CommitIterator::next from the entry i of the scan on: [item, commit, at],
\* `at` the entry that was returned
RECURSIVE CommitIteratorNext(_, _)
CommitIteratorNext(scan, i) ==
    IF i > Len(scan) THEN [item |-> "None", commit |-> NoCommit, at |-> i]
    ELSE IF scan[i].kind = "err" THEN [item |-> "WalkDir", commit |-> NoCommit, at |-> i]
    ELSE IF scan[i].kind # "file" THEN CommitIteratorNext(scan, i + 1)
    ELSE IF ~scan[i].parsed THEN [item |-> "ParseJson", commit |-> NoCommit, at |-> i]
    ELSE [item |-> Ok, commit |-> scan[i].commit, at |-> i]

\* the for loop of find_head_commit; head_commit is <<>> (None) or <<c>>
RECURSIVE HeadLoop(_, _, _)
HeadLoop(scan, i, head_commit) ==
    LET c == CommitIteratorNext(scan, i)
    IN  IF c.item = "None"
        THEN IF head_commit = <<>> THEN [err |-> "NoHeadCommit", head_commit |-> NoCommit]
             ELSE [err |-> Ok, head_commit |-> head_commit[1]]
        ELSE IF c.item # Ok THEN [err |-> c.item, head_commit |-> NoCommit]
        ELSE IF head_commit # <<>> /\ ~(c.commit.ctime > head_commit[1].ctime)
        THEN HeadLoop(scan, c.at + 1, head_commit)
        ELSE HeadLoop(scan, c.at + 1, <<c.commit>>)

\* a find_head_commit that keeps the last commit of the largest ctime
find_head_commit_last_seen(scan) ==
    HeadLoop([i \in 1..Len(scan) |-> scan[Len(scan) + 1 - i]], 1, <<>>)

\* a find_head_commit that answers a default commit when there is none
find_head_commit_default(scan) ==
    LET r == HeadLoop(scan, 1, <<>>)
    IN  IF r.err = "NoHeadCommit" THEN [err |-> Ok, head_commit |-> NoCommit] ELSE r

\* find_head_commit
find_head_commit(scan) == HeadLoop(scan, 1, <<>>)

\* Library::open: [opened, err, head_commit]
LibraryOpen(scan) ==
    LET r == find_head_commit(scan)
    IN  [opened |-> TRUE, err |-> r.err, head_commit |-> r.head_commit]
NotOpened == [opened |-> FALSE, err |-> Ok, head_commit |-> NoCommit]

\* ------------------------------------------------------- Sha1 (repo.rs)
\* struct Sha1 { words: [u32; 5] }, and the 8 characters of a word in a string
Sha1Words == 5
WordChars == 8

\* the digits of radix 16, as char::to_digit takes them and as {:x} writes them
HexLower == <<"0", "1", "2", "3", "4", "5", "6", "7", "8", "9",
              "a", "b", "c", "d", "e", "f">>
HexUpper == <<"0", "1", "2", "3", "4", "5", "6", "7", "8", "9",
              "A", "B", "C", "D", "E", "F">>

\* char::to_digit(16), -1 for None
to_digit(c) ==
    IF \E i \in 1..16 : HexLower[i] = c THEN (CHOOSE i \in 1..16 : HexLower[i] = c) - 1
    ELSE IF \E i \in 1..16 : HexUpper[i] = c
    THEN (CHOOSE i \in 1..16 : HexUpper[i] = c) - 1
    ELSE 0 - 1

\* a u32 is kept as its 8 digits of radix 16, the most significant first
ZeroU32 == [k \in 1..WordChars |-> 0]

\* u32::from_str_radix(src, 16) of a string of up to 8 characters: an optional
\* + sign, then digits only, and one digit at least; [ok, x]
from_str_radix(src) ==
    LET digits == IF src # <<>> /\ src[1] = "+" THEN Tail(src) ELSE src
    IN  IF digits = <<>> \/ \E i \in 1..Len(digits) : to_digit(digits[i]) < 0
        THEN [ok |-> FALSE, x |-> ZeroU32]
        ELSE [ok |-> TRUE,
              x |-> [k \in 1..WordChars |->
                       IF k <= WordChars - Len(digits) THEN 0
                       ELSE to_digit(digits[k - (WordChars - Len(digits))])]]

\* str::get(from..to) of an ASCII string: [some, str]
str_get(s, from, to) ==
    IF to > Len(s) THEN [some |-> FALSE, str |-> <<>>]
    ELSE [some |-> TRUE, str |-> SubSeq(s, from + 1, to)]

NoSha1 == [words |-> [w \in 0..(Sha1Words - 1) |-> ZeroU32]]

\* the for loop of Sha1::parse: [some, sha]
RECURSIVE ParseLoop(_, _, _)
ParseLoop(hex_str, i, sha) ==
    IF i >= Sha1Words THEN [some |-> TRUE, sha |-> sha]
    ELSE LET s == str_get(hex_str, i * WordChars, (i + 1) * WordChars)
         IN  IF ~s.some THEN [some |-> FALSE, sha |-> NoSha1]
             ELSE LET x == from_str_radix(s.str)
                  IN  IF ~x.ok THEN [some |-> FALSE, sha |-> NoSha1]
                      ELSE ParseLoop(hex_str, i + 1,
                                     [sha EXCEPT !.words[(Sha1Words - 1) - i] = x.x])

\* Sha1::parse
Sha1Parse(hex_str) == ParseLoop(hex_str, 0, NoSha1)

\* {:08x} of a u32
Fmt08x(x) == [k \in 1..WordChars |-> HexLower[x[k] + 1]]

\* a Display that writes the words in the order they are stored in
Sha1Display_stored_order(sha) ==
    Concat([i \in 1..Sha1Words |-> Fmt08x(sha.words[i - 1])])

\* Display for Sha1
Sha1Display(sha) ==
    Concat([i \in 1..Sha1Words |-> Fmt08x(sha.words[(Sha1Words - 1) - (i - 1)])])

\* the record of a call on a Sha1: what parse returned, the string to_string
\* returned, and the Sha1 that was written
Sha1Call(op, some, sha, text, written) ==
    [op |-> op, some |-> some, sha |-> sha, text |-> text, written |-> written]
NoSha1Call == Sha1Call("new", FALSE, NoSha1, <<>>, NoSha1)

\* ------------------------------------------------- match_prefix (main.rs)
\* a path is its string, a sequence of characters; "/" is the separator
Separator == "/"
\* the pieces of a string between its separators, empty ones included
RECURSIVE SplitSep(_, _, _)
SplitSep(s, i, cur) ==
    IF i > Len(s) THEN <<cur>>
    ELSE IF s[i] = Separator THEN <<cur>> \o SplitSep(s, i + 1, <<>>)
    ELSE SplitSep(s, i + 1, Append(cur, s[i]))

\* Component::RootDir and Component::CurDir; a Normal component is its name
RootDir == <<Separator>>
CurDir == <<".">>
\* Path::components: a leading separator is the root, a leading "." is kept,
\* repeated and trailing separators and every other "." are dropped
Components(s) ==
    LET segs   == SplitSep(s, 1, <<>>)
        normal == SelectSeq(segs, LAMBDA g : g # <<>> /\ g # CurDir)
    IN  (IF s # <<>> /\ s[1] = Separator THEN <<RootDir>>
         ELSE IF segs[1] = CurDir THEN <<CurDir>>
         ELSE <<>>) \o normal

\* a starts_with that compares the strings character by character
starts_with_chars(path, base) ==
    Len(base) <= Len(path) /\ SubSeq(path, 1, Len(base)) = base

\* Path::starts_with: the components of base are the first components of path
starts_with(path, base) ==
    LET p == Components(path)
        b == Components(base)
    IN  Len(b) <= Len(p) /\ SubSeq(p, 1, Len(b)) = b

\* PrefixMatch
Yes == "Yes"
No == "No"
Continue == "Continue"

\* match_prefix
match_prefix(pref, path) ==
    IF pref = <<>> \/ starts_with(path, pref) THEN Yes
    ELSE IF starts_with(pref, path) THEN Continue
    ELSE No

\* the record of a call of match_prefix
MatchCall(path, ret) == [called |-> TRUE, path |-> path, ret |-> ret]
NoMatchCall == [called |-> FALSE, path |-> <<>>, ret |-> ""]

\* ------------------------------------------------------ do_extract (main.rs)
\* the name of a dirent as a string: the i-th dirent of a Dir is named by the
\* i-th letter
NameChars == <<"a", "b", "c", "d", "e", "f">>
\* the string of a PathBuf built by push from the empty path
RECURSIVE PathString(_)
PathString(path) ==
    IF path = <<>> THEN <<>>
    ELSE IF Len(path) = 1 THEN <<NameChars[path[1]]>>
    ELSE PathString(PathPop(path)) \o <<Separator, NameChars[path[Len(path)]]>>

\* what is below the target: the entries extracted as (parent_path, name), and
\* the directories create_dir_all made
Materialized(entries, parents) == [entries |-> entries, parents |-> parents]
NoneMaterialized == Materialized({}, {})
\* fs::create_dir_all(target_path.parent()): the directory and the ones above it
create_dir_all(parents, p) == parents \cup {SubSeq(p, 1, k) : k \in 1..Len(p)}

\* the body of the loop of do_extract for the entry (p, de): the relation of p
\* to the prefix, the walker after it, and what is below the target
ExtractEntry(pref, state, done, p, de, dry_run) ==
    LET rel == match_prefix(pref, PathString(p))
    IN  [rel    |-> rel,
         state  |-> IF rel = No THEN FsIteratorPrune(state) ELSE state,
         pruned |-> rel = No,
         done   |-> IF rel = Yes /\ ~dry_run
                    THEN Materialized(done.entries \cup {<<p, de.name>>},
                                      create_dir_all(done.parents, p))
                    ELSE done]

\* ---------------------------------- Library::open, Sha1, extract: not in use
OpenIdle ==
    /\ commits = <<>>
    /\ library = NotOpened

Sha1Idle ==
    /\ hex = <<>>
    /\ sha1 = NoSha1Call

ExtractIdle ==
    /\ prefix = <<>>
    /\ pmLast = NoMatchCall
    /\ materialized = NoneMaterialized

ToolsIdle ==
    /\ OpenIdle
    /\ Sha1Idle
    /\ ExtractIdle

\* ------------------------------------------------- the adapter, not in use
NoReply == Reply(SeafFuseNew(EMPTY_SHA1), Ok, FALSE)
\* the record of a call and of what it returned
FuseCall(op, ino, name, fh, offset, size, r) ==
    [op |-> op, ino |-> ino, name |-> name, fh |-> fh, offset |-> offset,
     size |-> size, err |-> r.err, faulted |-> r.faulted, attr |-> r.attr,
     rfh |-> r.fh, data |-> r.data, entries |-> r.entries]
NoFuseCall == FuseCall("new", 0, 0, 0, 0, 0, NoReply)

\* a directory listed in pieces: its inode (0: none), the entries received so
\* far, the number of readdir calls made, and whether the empty reply has come
NoListing == [dir |-> 0, received |-> <<>>, calls |-> 0, done |-> FALSE]

\* what the kernel has been given so far: the handles in the order of their
\* opens, the attributes returned by lookups, whether a handle was issued
\* after another one had been released, and the handles of the successful
\* releases; in a mount that is followed by its names (naming), every
\* <<call, directory inode, name, inode>> a lookup or an entry of a readdir
\* has returned; and the directory that is being listed in pieces
NoFuseHist ==
    [issued |-> <<>>, looked |-> {}, reopened |-> FALSE, released |-> {},
     naming |-> FALSE, named |-> {}, listing |-> NoListing]

FuseIdle ==
    /\ fuse = SeafFuseNew(EMPTY_SHA1)
    /\ fuLast = NoFuseCall
    /\ fuHist = NoFuseHist

\* ------------------------------------------------- the reader's specification
\* the files tried: blocks 1..n, each of any length up to MaxBlockSize
BlockIds == 1..MaxBlocks

BlockStores ==
    UNION {{[id \in BlockIds |-> IF id <= n THEN BlockObject(BlockBytes(id, sz[id]))
                                           ELSE NoObject] :
              sz \in [1..n -> 0..MaxBlockSize]} : n \in 0..MaxBlocks}

FileBlockIds(store) == [i \in 1..Cardinality({id \in BlockIds : store[id].exists}) |-> i]

NoCall == [op |-> "new", from |-> "", arg |-> 0, pos |-> 0, len |-> 0, ok |-> TRUE,
           n |-> 0, data |-> <<>>, afterSeekStart |-> FALSE]

NotDraining == [bytes |-> <<>>, done |-> FALSE, ok |-> TRUE, reads |-> 0]

\* no reader is in use
ReaderUnused ==
    /\ reader = FileReaderNew(FileBlockReaderNew(<<>>, blockStore))
    /\ rdLast = NoCall
    /\ drained = NotDraining

ReaderIdle ==
    /\ blockStore = [id \in BlockIds |-> NoObject]
    /\ ReaderUnused

InitReader ==
    /\ blockStore \in BlockStores
    /\ reader = FileReaderNew(FileBlockReaderNew(FileBlockIds(blockStore), blockStore))
    /\ rdLast = NoCall
    /\ drained = NotDraining
    /\ WalkerIdle
    /\ FuseIdle
    /\ ToolsIdle

\* a position in the upper half of u64, as `offset as u64` of a negative offset
\* gives, and the positions the reader is followed at
HugeSeek == U64 - (MaxSeek + 1)
SeekPositions == (0..MaxSeek) \cup {HugeSeek}

\* fr.seek(pos)
Seek ==
    \E from \in {"Start", "End", "Current"} :
      \E o \in (IF from = "Start" THEN SeekPositions ELSE SeekDeltas) :
        LET r == FileReaderSeek(reader, from, o)
        IN  /\ r.reader.byte_pos \in SeekPositions
            /\ reader' = r.reader
            /\ rdLast' = [op |-> "seek", from |-> from, arg |-> o, pos |-> 0,
                          len |-> 0, ok |-> r.ok, n |-> r.pos, data |-> <<>>,
                          afterSeekStart |-> FALSE]
            /\ UNCHANGED <<toolVars, blockStore, drained, walkerVars, fuseVars>>

\* the record of fr.read(&mut buf) with buf.len() = len, which returned r
ReadCall(len, r) ==
    [op |-> "read", from |-> "", arg |-> 0, pos |-> reader.byte_pos,
     len |-> len, ok |-> r.ok, n |-> r.n, data |-> r.data,
     afterSeekStart |-> (rdLast.op = "seek" /\ rdLast.from = "Start"
                         /\ rdLast.ok /\ rdLast.arg = reader.byte_pos)]

\* fr.read(&mut buf) with buf.len() = len
Read ==
    \E len \in 0..MaxSeek :
        LET r == FileReaderRead(reader, blockStore, len)
        IN  /\ reader' = r.reader
            /\ rdLast' = ReadCall(len, r)
            /\ UNCHANGED <<toolVars, blockStore, drained, walkerVars, fuseVars>>

NextReader == Seek \/ Read

SpecReader == InitReader /\ [][NextReader]_vars

\* one turn of a read-to-end loop (tests/test_repo.rs, read_to_end): read into a
\* non-empty buffer of any length, stop at the first read of 0 bytes or at an error
ReadToEndStep ==
    /\ ~drained.done
    /\ \E len \in 1..MaxSeek :
        LET r == FileReaderRead(reader, blockStore, len)
        IN  /\ reader' = r.reader
            /\ drained' = [bytes |-> drained.bytes \o r.data,
                           done |-> (~r.ok \/ r.n = 0), ok |-> r.ok,
                           reads |-> drained.reads + 1]
            /\ UNCHANGED <<toolVars, blockStore, rdLast, walkerVars, fuseVars>>

\* the loop runs until it ends: the caller keeps calling read
SpecReadToEnd == InitReader /\ [][ReadToEndStep]_vars /\ WF_vars(ReadToEndStep)

InitWalker ==
    /\ fsStore \in FsStores
    /\ walker = FsIteratorNew(RootId)
    /\ wkLast = NoWalkerCall
    /\ wkOut = <<>>
    /\ wkHist = NoHist
    /\ ReaderIdle
    /\ FuseIdle
    /\ ToolsIdle

\* the outcomes of the loads of one call (next_result loads the root, then a
\* Dirent, and returns at the first failure): none fails, the first fails, or
\* the root is loaded and the Dirent's load fails
LoadFailures(state) ==
    {{}, FsIds} \cup (IF state.tag = "Root" THEN {FsIds \ {state.root_id}} ELSE {})

\* it.next(): the object files may be unreadable at this call
WkNext ==
    \E bad \in LoadFailures(walker) :
        LET r == next_result(fsStore, bad, walker)
        IN  /\ r.ret = "err" => wkHist.errors < MaxLoadErrors
            /\ walker' = r.state
            /\ wkLast' = [call |-> "next", ret |-> r.ret, path_before |-> r.path_before,
                          de |-> r.de, kind |-> r.kind, loads |-> r.loads]
            /\ wkOut' = IF r.ret = "item"
                        THEN Append(wkOut, [parent |-> r.path_before, name |-> r.de.name,
                                            id |-> r.de.id, kind |-> r.kind])
                        ELSE wkOut
            /\ wkHist' = [wkHist EXCEPT !.errors = IF r.ret = "err" THEN @ + 1 ELSE @,
                                        !.loaded = @ \/ r.loads # <<>>,
                                        !.ended = @ \/ r.ret = "none"]
            /\ UNCHANGED <<toolVars, fsStore, readerVars, fuseVars>>

\* it.prune()
WkPrune ==
    /\ walker' = FsIteratorPrune(walker)
    /\ wkLast' = [NoWalkerCall EXCEPT !.call = "prune"]
    /\ wkHist' = [wkHist EXCEPT
                    !.prunes = Min(@ + 1, 2),
                    !.pruneAt = IF wkHist.prunes = 0 THEN Len(wkOut) ELSE 0,
                    !.pruneAfterYield = wkHist.prunes = 0 /\ wkLast.call = "next"
                                        /\ wkLast.ret = "item"]
    /\ UNCHANGED <<toolVars, fsStore, wkOut, readerVars, fuseVars>>

\* it.clear()
WkClear ==
    /\ walker' = FsIteratorClear(walker)
    /\ wkLast' = [NoWalkerCall EXCEPT !.call = "clear"]
    /\ wkHist' = [wkHist EXCEPT !.cleared = TRUE,
                                !.clearedLive = @ \/ walker.tag = "Root" \/ walker.stack # <<>>]
    /\ UNCHANGED <<toolVars, fsStore, wkOut, readerVars, fuseVars>>

NextWalker == WkNext \/ WkPrune \/ WkClear

SpecWalker == InitWalker /\ [][NextWalker]_vars

\* ------------------------------------------------ the adapter's specification
\* the block objects of the mounted library: block b holds min(b, MaxBlockSize)
\* bytes
FuseBlockStore == [id \in BlockIds |-> BlockObject(BlockBytes(id, Min(id, MaxBlockSize)))]

\* its File objects: the File of id i holds the blocks 1 .. min(i - 1, MaxBlocks),
\* and its size field is their length
FuseFile(id) ==
    LET block_ids == [i \in 1..Min(id - 1, MaxBlocks) |-> i]
    IN  FileJson(block_ids,
                 SumSeq([i \in 1..Len(block_ids) |-> Len(FuseBlockStore[i].bytes)]))

\* the libraries mounted: the fullest trees of the walker that hold a File,
\* every object reached from the root and no sentinel in the root itself
FuseStores ==
    {[id \in FsIds |-> IF s[id].kind = "File" THEN FuseFile(id) ELSE s[id]] :
       s \in {t \in FsStores :
                 /\ SumSeq([i \in FsIds |-> Len(t[i].dirents)]) = MaxTreeDirents
                 /\ ReachFrom(t, RootId) = FsIds
                 /\ \E i \in FsIds : t[i].kind = "File"
                 /\ \A i \in 1..Len(t[RootId].dirents) :
                        t[RootId].dirents[i].id # EMPTY_SHA1}}

\* the arguments tried: every inode number that can be allocated, every dirent
\* name, one absent name and a name that is not UTF-8, every handle that can be
\* issued and one more
InoArgs == 1..(MaxFsObjs + 1)
NameArgs == {NotUtf8} \cup (1..(MaxDirents + 1))
FhArgs == 1..(MaxOpens + 1)
OffsetArgs == (0 - 1)..1
SizeArgs == {1, MaxSeek}

\* the object files that cannot be read during one call: none, all of them, or
\* all but the root
FsFaults == {{}, FsIds, FsIds \ {RootId}}
BlockFaults == {{}} \cup {{id} : id \in 1..Min(MaxBlocks, MaxFsObjs - 1)}
\* at an open: no fault, fs objects or a block object
NoFault == <<{}, {}>>
OpenFaults ==
    {<<bad, {}>> : bad \in FsFaults} \cup {<<{}, badb>> : badb \in BlockFaults}
BlockView(blocks, bad) == [id \in DOMAIN blocks |-> IF id \in bad THEN NoObject ELSE blocks[id]]

\* SeafFuse::new(lib)
InitFuse ==
    /\ fsStore \in FuseStores
    /\ blockStore = FuseBlockStore
    /\ fuse = SeafFuseNew(RootId)
    /\ fuLast = NoFuseCall
    /\ fuHist = NoFuseHist
    /\ ReaderUnused
    /\ WalkerUnused
    /\ ToolsIdle

\* the kernel's calls, each with the arguments it is tried with
FuseLookup(inos, names, faults) ==
    \E parent \in inos, name \in names, bad \in faults :
        \E r \in {do_lookup(fuse, fsStore, bad, parent, name)} :
            /\ fuse' = r.fuse
            /\ fuLast' = FuseCall("lookup", parent, name, 0, 0, 0, r)
            /\ fuHist' = [fuHist EXCEPT
                            !.looked = IF r.err = Ok THEN @ \cup {r.attr} ELSE @,
                            !.named = IF r.err = Ok /\ fuHist.naming
                                      THEN @ \cup {<<"lookup", parent, name, r.attr.ino>>}
                                      ELSE @]
            /\ UNCHANGED <<toolVars, fsStore, blockStore, readerOnly, walkerOnly>>

FuseGetattr(inos, faults) ==
    \E ino \in inos, bad \in faults :
        \E r \in {do_getattr(fuse, fsStore, bad, ino)} :
            /\ fuse' = r.fuse
            /\ fuLast' = FuseCall("getattr", ino, 0, 0, 0, 0, r)
            /\ UNCHANGED <<toolVars, fuHist, fsStore, blockStore, readerOnly, walkerOnly>>

FuseReaddir(inos, faults) ==
    \E ino \in inos, bad \in faults :
        \E r \in {do_readdir(fuse, fsStore, bad, ino)} :
            /\ fuse' = r.fuse
            /\ fuLast' = FuseCall("readdir", ino, 0, 0, 0, 0, r)
            /\ fuHist' = [fuHist EXCEPT
                            !.named = IF r.err = Ok /\ fuHist.naming
                                      THEN @ \cup {<<"readdir", ino, r.entries[i].name,
                                                      r.entries[i].ino>> :
                                                       i \in 1..Len(r.entries)}
                                      ELSE @]
            /\ UNCHANGED <<toolVars, fsStore, blockStore, readerOnly, walkerOnly>>

\* the mount is followed until `opens` handles have been issued
FuseOpen(inos, faults, opens) ==
    /\ fuse.file_handle_counter <= opens
    /\ \E ino \in inos, fault \in faults :
        \E r \in {do_open(fuse, fsStore, BlockView(blockStore, fault[2]), fault[1], ino)} :
            /\ fuse' = r.fuse
            /\ fuLast' = FuseCall("open", ino, 0, 0, 0, 0, r)
            /\ fuHist' = IF r.err # Ok THEN fuHist
                         ELSE [fuHist EXCEPT
                                 !.issued = Append(@, r.fh),
                                 !.reopened = @ \/ \E i \in 1..Len(fuHist.issued) :
                                     fuHist.issued[i] \notin DOMAIN fuse.open_file_table]
            /\ UNCHANGED <<toolVars, fsStore, blockStore, readerOnly, walkerOnly>>

FuseRelease(fhs) ==
    \E fh \in fhs :
        \E r \in {do_release(fuse, fh)} :
            /\ fuse' = r.fuse
            /\ fuLast' = FuseCall("release", 0, 0, fh, 0, 0, r)
            /\ fuHist' = [fuHist EXCEPT
                            !.released = IF r.err = Ok THEN @ \cup {fh} ELSE @]
            /\ UNCHANGED <<toolVars, fsStore, blockStore, readerOnly, walkerOnly>>

FuseRead(fhs, offsets, sizes, faults) ==
    \E fh \in fhs, offset \in offsets, size \in sizes, badb \in faults :
        \E r \in {do_read(fuse, BlockView(blockStore, badb), fh, offset, size)} :
            /\ fuse' = r.fuse
            /\ fuLast' = FuseCall("read", 0, 0, fh, offset, size, r)
            /\ UNCHANGED <<toolVars, fuHist, fsStore, blockStore, readerOnly, walkerOnly>>

\* Filesystem::access: reply.ok()
FuseAccess(inos) ==
    \E ino \in inos :
        /\ fuLast' = FuseCall("access", ino, 0, 0, 0, 0, Reply(fuse, Ok, FALSE))
        /\ UNCHANGED <<toolVars, fuse, fuHist, fsStore, blockStore, readerOnly, walkerOnly>>

\* Filesystem::readdir called as the kernel lists a directory: the first call
\* with offset 0, every further call with the offset of the last entry
\* received, until a reply is empty; an error reply ends the listing
FuseList(inos, caps, faults) ==
    LET l     == fuHist.listing
        fresh == l.dir = 0 \/ l.done
        offset == IF fresh \/ l.received = <<>> THEN 0
                  ELSE l.received[Len(l.received)].offset
    IN  \E ino \in (IF fresh THEN inos ELSE {l.dir}), cap \in caps, bad \in faults :
          \E r \in {readdir(fuse, fsStore, bad, ino, offset, cap)} :
            /\ fuse' = r.fuse
            /\ fuLast' = FuseCall("Filesystem::readdir", ino, 0, 0, offset, cap, r)
            /\ fuHist' = [fuHist EXCEPT
                            !.listing =
                               IF r.err # Ok THEN NoListing
                               ELSE [dir |-> ino,
                                     received |-> (IF fresh THEN <<>> ELSE l.received)
                                                     \o r.entries,
                                     calls |-> (IF fresh THEN 0 ELSE l.calls) + 1,
                                     done |-> r.entries = <<>>]]
            /\ UNCHANGED <<toolVars, fsStore, blockStore, readerOnly, walkerOnly>>

\* Filesystem::readdir called with any offset
FuseReaddirAt(inos, offsets, caps) ==
    \E ino \in inos, offset \in offsets, cap \in caps :
        \E r \in {readdir(fuse, fsStore, {}, ino, offset, cap)} :
            /\ fuse' = r.fuse
            /\ fuLast' = FuseCall("Filesystem::readdir", ino, 0, 0, offset, cap, r)
            /\ UNCHANGED <<toolVars, fuHist, fsStore, blockStore, readerOnly, walkerOnly>>

\* a mount seen from its inodes: every lookup, getattr and readdir, with one
\* file opened, read to its end and released
NextFuse ==
    \/ FuseLookup(InoArgs, NameArgs, FsFaults)
    \/ FuseGetattr(InoArgs, FsFaults)
    \/ FuseReaddir(InoArgs, FsFaults)
    \/ FuseOpen(InoArgs, {NoFault}, 1)
    \/ FuseRelease({1})
    \/ FuseRead({1}, {0}, {MaxSeek}, {{}})
    \/ FuseAccess({FUSE_ROOT_ID})

SpecFuse == InitFuse /\ [][NextFuse]_vars

\* a mount seen from its open files: every open, read and release, with the
\* lookups of the root's dirents
NextFuseFiles ==
    \/ FuseLookup({FUSE_ROOT_ID}, 1..MaxDirents, {{}})
    \/ FuseGetattr({FUSE_ROOT_ID}, {{}})
    \/ FuseReaddir({FUSE_ROOT_ID}, {{}})
    \/ FuseOpen(InoArgs, OpenFaults, MaxOpens)
    \/ FuseRelease(FhArgs)
    \/ FuseRead(FhArgs, OffsetArgs, SizeArgs, BlockFaults)
    \/ FuseAccess({FUSE_ROOT_ID})

SpecFuseFiles == InitFuse /\ [][NextFuseFiles]_vars

\* ----------------------------------------------------- the reader's claims
\* the file as it is on disk: its blocks in block_ids order
FileBlocks == [i \in 1..Len(FileBlockIds(blockStore)) |->
                 blockStore[FileBlockIds(blockStore)[i]].bytes]
FileBytes == Concat(FileBlocks)
FileSize == SumSeq([i \in 1..Len(FileBlocks) |-> Len(FileBlocks[i])])

\* C1: a read at position o into a buffer of length L returns 0 bytes when
\* o >= S, exactly S - o bytes when o < S and o + L > S, and exactly L bytes when
\* o + L <= S: a read is short only at the end of the file
C1_ReadCount ==
    rdLast.op = "read" =>
        /\ rdLast.ok
        /\ Len(rdLast.data) = rdLast.n
        /\ rdLast.n = (IF rdLast.pos >= FileSize THEN 0
                       ELSE IF rdLast.pos + rdLast.len > FileSize
                       THEN FileSize - rdLast.pos
                       ELSE rdLast.len)

\* a read that starts in the first of three blocks and is cut short by the end
C1_Witness ==
    /\ rdLast.op = "read"
    /\ Len(FileBlocks) = 3
    /\ \A i \in 1..3 : Len(FileBlocks[i]) > 0
    /\ rdLast.pos < Len(FileBlocks[1])
    /\ rdLast.pos + rdLast.len > FileSize
    /\ rdLast.n = FileSize - rdLast.pos

\* C2: seek(Start(k)) followed by read(L) returns exactly the bytes
\* k .. min(k + L, size) of the concatenation of the blocks in block_ids order
C2_SeekRead ==
    (rdLast.op = "read" /\ rdLast.afterSeekStart) =>
        /\ rdLast.ok
        /\ rdLast.data = SubSeq(FileBytes, rdLast.pos + 1,
                                Min(rdLast.pos + rdLast.len, FileSize))

\* a read after seek(Start(k)), k > 0, over two block boundaries with an empty
\* block between them
C2_Witness ==
    /\ rdLast.op = "read" /\ rdLast.afterSeekStart
    /\ Len(FileBlocks) = 3
    /\ Len(FileBlocks[1]) = 2 /\ Len(FileBlocks[2]) = 0 /\ Len(FileBlocks[3]) = 2
    /\ rdLast.pos = 1 /\ rdLast.len = 2
    /\ rdLast.data = <<FileBlocks[1][2], FileBlocks[3][1]>>

\* C3: from a fresh reader, reading into non-empty buffers until a read returns
\* 0 ends (every read but the last returns a byte at least, so the loop, whose
\* step is enabled until it has ended, makes at most size + 1 reads), and the
\* bytes returned are the blocks' bytes in order, in all the sum of the block sizes
C3_ReadToEnd ==
    /\ drained.reads <= FileSize + 1
    /\ (~drained.done /\ drained.reads > 0) => Len(drained.bytes) >= drained.reads
    /\ drained.done =>
            /\ drained.ok
            /\ drained.bytes = FileBytes
            /\ Len(drained.bytes) = FileSize

\* a loop that ended after several reads over three non-empty blocks
C3_Witness ==
    /\ drained.done /\ drained.ok
    /\ Len(FileBlocks) = 3
    /\ \A i \in 1..3 : Len(FileBlocks[i]) > 0
    /\ drained.bytes = FileBytes
    /\ drained.reads = 4

\* ----------------------------------------------------- the walker's claims
\* the tree under the head commit's root, read from the store: its entries as
\* (parent_path, name) pairs
IsDirId(store, id) == id = EMPTY_SHA1 \/ store[id].kind = "Dir"
DirentsOfId(store, id) == IF id = EMPTY_SHA1 THEN <<>> ELSE store[id].dirents

RECURSIVE EntriesUnder(_, _, _)
EntriesUnder(store, id, path) ==
    LET ds == DirentsOfId(store, id)
    IN  UNION {{<<path, ds[i].name>>} \cup
                 (IF IsDirId(store, ds[i].id)
                  THEN EntriesUnder(store, ds[i].id, Append(path, ds[i].name))
                  ELSE {}) : i \in 1..Len(ds)}

TreeEntries == EntriesUnder(fsStore, RootId, <<>>)

IsPrefix(p, q) == Len(p) <= Len(q) /\ SubSeq(q, 1, Len(p)) = p

\* next has returned none
WalkEnded == wkLast.call = "next" /\ wkLast.ret = "none"
OutPairs == {<<wkOut[i].parent, wkOut[i].name>> : i \in 1..Len(wkOut)}
NoDupOut == Cardinality(OutPairs) = Len(wkOut)

\* C4: with no prune, no clear and no load error, calling next until it returns
\* none yields every entry of the tree under the root exactly once
C4_WalkAll ==
    (wkHist.prunes = 0 /\ ~wkHist.cleared /\ wkHist.errors = 0) =>
        /\ NoDupOut
        /\ OutPairs \subseteq TreeEntries
        /\ WalkEnded => OutPairs = TreeEntries

\* a finished walk of a tree three levels deep with several entries in a Dir
C4_Witness ==
    /\ wkHist.prunes = 0 /\ ~wkHist.cleared /\ wkHist.errors = 0
    /\ WalkEnded
    /\ Len(wkOut) >= 4
    /\ OutPairs = TreeEntries
    /\ \E i \in 1..Len(wkOut) : Len(wkOut[i].parent) = 2
    /\ \E i, j \in 1..Len(wkOut) : i # j /\ wkOut[i].parent = wkOut[j].parent

\* C5: when prune is called right after next yielded a Dir entry D, no entry
\* inside D is ever yielded, D has been yielded exactly once, and the following
\* next calls yield exactly the rest of the tree outside D
C5_PruneDir ==
    (/\ wkHist.prunes = 1 /\ wkHist.pruneAfterYield
     /\ ~wkHist.cleared /\ wkHist.errors = 0
     /\ wkOut[wkHist.pruneAt].kind = "Dir") =>
        LET D     == wkOut[wkHist.pruneAt]
            dpath == Append(D.parent, D.name)
            Kept  == {e \in TreeEntries : ~IsPrefix(dpath, e[1])}
        IN  /\ \A j \in 1..Len(wkOut) : ~IsPrefix(dpath, wkOut[j].parent)
            /\ Cardinality({j \in 1..Len(wkOut) :
                              wkOut[j].parent = D.parent /\ wkOut[j].name = D.name}) = 1
            /\ NoDupOut
            /\ OutPairs \subseteq Kept
            /\ WalkEnded => OutPairs = Kept

\* a finished walk in which a Dir with entries two levels deep was pruned, and
\* siblings of it were yielded afterwards
C5_Witness ==
    /\ wkHist.prunes = 1 /\ wkHist.pruneAfterYield
    /\ ~wkHist.cleared /\ wkHist.errors = 0
    /\ wkOut[wkHist.pruneAt].kind = "Dir"
    /\ WalkEnded
    /\ Len(wkOut) > wkHist.pruneAt
    /\ LET D == wkOut[wkHist.pruneAt]
       IN  \E e \in TreeEntries :
              IsPrefix(Append(D.parent, D.name), e[1]) /\ Len(e[1]) > Len(D.parent) + 1

\* the walker's terminal state: no frame left
Terminal(state) == state.tag = "NotRoot" /\ state.stack = <<>>

\* C6: prune before the first next, or on an empty stack, leaves the walker
\* terminal; a terminal walker stays terminal, its next returns none and loads
\* no fs object
C6_PruneRoot ==
    [][/\ (wkLast'.call = "prune" /\ (walker.tag = "Root" \/ Terminal(walker)))
            => Terminal(walker')
       /\ Terminal(walker) =>
            /\ Terminal(walker')
            /\ wkLast'.call = "next" => (wkLast'.ret = "none" /\ wkLast'.loads = <<>>)
      ]_vars

\* a walker pruned before its first next, whose next then returned none without
\* anything having been loaded
C6_Witness ==
    /\ wkHist.prunes = 1 /\ wkHist.pruneAt = 0 /\ ~wkHist.cleared
    /\ ~wkHist.loaded
    /\ Terminal(walker)
    /\ WalkEnded
    /\ fsStore[RootId].dirents # <<>>

\* C7: when load_fs fails for a Dirent, the walker is not advanced past it: the
\* failing Dirent is still the next one of the top frame
C7_ErrorKeepsDirent ==
    (wkLast.call = "next" /\ wkLast.ret = "err" /\ walker.tag = "NotRoot") =>
        /\ walker.stack # <<>>
        /\ walker.stack[Len(walker.stack)] # <<>>
        /\ LET top == walker.stack[Len(walker.stack)] IN top[Len(top)] = wkLast.de

\* ----------------------------------------------------- the adapter's claims
Lefts(t) == {p[1] : p \in t}
Rights(t) == {p[2] : p \in t}
Bijective(t) == Cardinality(Lefts(t)) = Cardinality(t) /\ Cardinality(Rights(t)) = Cardinality(t)

\* C8: after any sequence of calls the inode table is a bijection between inode
\* numbers and hashes, it maps the root inode to the head commit's root_id, and
\* no call removes or remaps a pair it holds
C8_InoTable ==
    [][/\ Bijective(fuse.ino_table) /\ <<FUSE_ROOT_ID, RootId>> \in fuse.ino_table
       /\ Bijective(fuse'.ino_table) /\ <<FUSE_ROOT_ID, RootId>> \in fuse'.ino_table
       /\ fuse.ino_table \subseteq fuse'.ino_table]_vars

\* every hash of the library has its inode, and a lookup has just been answered
\* with an inode allocated before the newest one, while a file was open
C8_Witness ==
    /\ Cardinality(fuse.ino_table) = MaxFsObjs + 1
    /\ fuLast.op = "lookup" /\ fuLast.err = Ok
    /\ fuLast.attr.ino > FUSE_ROOT_ID /\ fuLast.attr.ino < fuse.ino_counter - 1
    /\ DOMAIN fuse.open_file_table # {}

\* C9: a getattr of the inode of an attribute that a lookup has returned, when
\* the object files can be read, returns that attribute, whatever was called in
\* between
C9_LookupGetattr ==
    (fuLast.op = "getattr" /\ ~fuLast.faulted) =>
        \A A \in fuHist.looked :
            A.ino = fuLast.ino => (fuLast.err = Ok /\ fuLast.attr = A)

\* a getattr of a File that was looked up, after the other inodes were allocated
\* and a file was opened and released
C9_Witness ==
    /\ fuLast.op = "getattr" /\ ~fuLast.faulted
    /\ \E A \in fuHist.looked :
          A.ino = fuLast.ino /\ A.kind = "RegularFile" /\ A.size > 0 /\ fuLast.attr = A
    /\ Cardinality(fuHist.looked) >= 2
    /\ Cardinality(fuse.ino_table) = MaxFsObjs + 1
    /\ fuHist.issued # <<>> /\ DOMAIN fuse.open_file_table = {}

\* C10: the handles returned by the successful opens of a mount start at 1 and
\* are strictly increasing, so none is returned twice, released or not
C10_FreshHandles ==
    /\ \A i, j \in 1..Len(fuHist.issued) : i < j => fuHist.issued[i] < fuHist.issued[j]
    /\ fuHist.issued # <<>> => fuHist.issued[1] = 1

\* an open that succeeded after an earlier handle had been released
C10_Witness ==
    /\ fuLast.op = "open" /\ fuLast.err = Ok
    /\ fuHist.reopened
    /\ Len(fuHist.issued) = MaxOpens
    /\ fuLast.rfh = MaxOpens
    /\ DOMAIN fuse.open_file_table = {MaxOpens}


Issued == {fuHist.issued[i] : i \in 1..Len(fuHist.issued)}
TableOps == {"open", "release"}

\* C11: the keys of the open-file table are the handles returned by successful
\* opens less the handles of successful releases, and no call but open and
\* release adds or removes a key
C11_OpenTableKeys ==
    [][/\ DOMAIN fuse.open_file_table = Issued \ fuHist.released
       /\ DOMAIN fuse'.open_file_table =
             {fuHist'.issued[i] : i \in 1..Len(fuHist'.issued)} \ fuHist'.released
       /\ fuLast'.op \notin TableOps =>
             DOMAIN fuse'.open_file_table = DOMAIN fuse.open_file_table]_vars

\* two handles issued, the first released, and a read on the one still open
C11_Witness ==
    /\ Len(fuHist.issued) = 2
    /\ fuHist.released = {1}
    /\ DOMAIN fuse.open_file_table = {2}
    /\ fuLast.op = "read" /\ fuLast.fh = 2 /\ fuLast.err = Ok /\ fuLast.data # <<>>

\* C12: a read or a release with a handle that is not in the open-file table
\* returns EBADF and changes nothing of the adapter
C12_BadHandle ==
    [][(fuLast'.op \in {"read", "release"}
          /\ fuLast'.fh \notin DOMAIN fuse.open_file_table) =>
            (fuLast'.err = EBADF /\ fuse' = fuse)]_vars

\* a second release of a handle, while another handle is open
C12_Witness ==
    /\ fuLast.op = "release" /\ fuLast.err = EBADF
    /\ fuLast.fh \in fuHist.released
    /\ DOMAIN fuse.open_file_table # {}


LoadingOps == {"lookup", "getattr", "readdir", "open"}

\* C13: a lookup, getattr, readdir or open during which an fs object could not
\* be loaded returns EIO, and EINVAL is never the answer to a failed load
C13_LoadErrorIsEIO ==
    (fuLast.op \in LoadingOps /\ fuLast.faulted) =>
        (fuLast.err = EIO /\ fuLast.err # EINVAL)

\* C14: a read on an open handle with a negative offset returns EINVAL and no
\* data
C14_NegativeOffset ==
    (fuLast.op = "read" /\ fuLast.offset < 0 /\ fuLast.err # EBADF) =>
        (fuLast.err = EINVAL /\ fuLast.data = <<>>)


\* the inode numbers of the table, and the fs object of one of them
Known(f, ino) == ino \in Lefts(f.ino_table)
InoIsDir(f, ino) == IsDirId(fsStore, lookup_id_by_ino(f, ino).id)

\* C15: lookup (as parent), getattr, readdir and open with an inode number that
\* is not in the inode table return EIO and change nothing of the adapter
C15_UnknownIno ==
    [][(fuLast'.op \in LoadingOps /\ ~Known(fuse, fuLast'.ino)) =>
            (fuLast'.err = EIO /\ fuse' = fuse)]_vars

\* a readdir of an unknown inode number, with inodes allocated and a file open
C15_Witness ==
    /\ fuLast.op = "readdir" /\ fuLast.err = EIO
    /\ ~Known(fuse, fuLast.ino)
    /\ Cardinality(fuse.ino_table) >= 3
    /\ DOMAIN fuse.open_file_table # {}

\* C16: open on an inode whose fs object is a Dir returns EINVAL, issues no
\* handle and leaves the open-file table as it was
C16_OpenDir ==
    [][(fuLast'.op = "open" /\ Known(fuse, fuLast'.ino) /\ InoIsDir(fuse, fuLast'.ino)) =>
            /\ fuLast'.err = EINVAL
            /\ fuse'.open_file_table = fuse.open_file_table
            /\ fuse'.file_handle_counter = fuse.file_handle_counter
            /\ fuHist'.issued = fuHist.issued]_vars

\* an open of a Dir below the root that returned EINVAL while a file was open
C16_Witness ==
    /\ fuLast.op = "open" /\ fuLast.err = EINVAL /\ ~fuLast.faulted
    /\ fuLast.ino > FUSE_ROOT_ID
    /\ Known(fuse, fuLast.ino) /\ InoIsDir(fuse, fuLast.ino)
    /\ DOMAIN fuse.open_file_table # {}

\* C17: lookup with a parent whose fs object is a File, and readdir on an
\* inode whose fs object is a File, return ENOTDIR and allocate no inode
C17_NotDir ==
    [][(/\ fuLast'.op \in {"lookup", "readdir"}
        /\ Known(fuse, fuLast'.ino) /\ ~InoIsDir(fuse, fuLast'.ino)
        /\ ~fuLast'.faulted) =>
            /\ fuLast'.err = ENOTDIR
            /\ fuse'.ino_table = fuse.ino_table
            /\ fuse'.ino_counter = fuse.ino_counter]_vars

\* a lookup under a File that returned ENOTDIR
C17_Witness ==
    /\ fuLast.op = "lookup" /\ fuLast.err = ENOTDIR
    /\ fuLast.name \in 1..MaxDirents
    /\ Known(fuse, fuLast.ino) /\ ~InoIsDir(fuse, fuLast.ino)


\* ------------------------------------- the adapter's names: lookup and readdir
\* nothing keeps the names of a Dir distinct: the Dir with every dirent named
\* alike
SameNames(dir) ==
    DirJson([i \in 1..Len(dir.dirents) |-> DirentJson(dir.dirents[i].id, 1)])

\* the libraries mounted, and the same libraries with their Dirs named alike
NamedStores ==
    FuseStores \cup
    {[id \in FsIds |-> IF s[id].kind = "Dir" THEN SameNames(s[id]) ELSE s[id]] :
       s \in FuseStores}

InitFuseNames ==
    /\ fsStore \in NamedStores
    /\ blockStore = FuseBlockStore
    /\ fuse = SeafFuseNew(RootId)
    /\ fuLast = NoFuseCall
    /\ fuHist = [NoFuseHist EXCEPT !.naming = TRUE]
    /\ ReaderUnused
    /\ WalkerUnused
    /\ ToolsIdle

\* a mount seen from its names: every lookup, getattr and readdir
NextFuseNames ==
    \/ FuseLookup(InoArgs, NameArgs, FsFaults)
    \/ FuseGetattr(InoArgs, {{}})
    \/ FuseReaddir(InoArgs, FsFaults)

SpecFuseNames == InitFuseNames /\ [][NextFuseNames]_vars

\* the dirents of the directory of an inode, and the positions of a name in it
InoDirents(f, ino) == DirentsOfId(fsStore, lookup_id_by_ino(f, ino).id)
Matches(dirents, name) ==
    {i \in 1..Len(dirents) : name # NotUtf8 /\ dirents[i].name = name}
FirstOf(positions) == CHOOSE i \in positions : \A j \in positions : i <= j

\* C18: a lookup in a directory without a dirent of that name, or with a name
\* that is not UTF-8, returns ENOENT and leaves the inode table and the inode
\* counter as they were; when several dirents have the name, the first in
\* stored order is the one looked up
C18_LookupName ==
    [][(/\ fuLast'.op = "lookup"
        /\ Known(fuse, fuLast'.ino) /\ InoIsDir(fuse, fuLast'.ino)
        /\ ~fuLast'.faulted) =>
            LET dirents == InoDirents(fuse, fuLast'.ino)
                found   == Matches(dirents, fuLast'.name)
            IN  IF found = {}
                THEN /\ fuLast'.err = ENOENT
                     /\ fuse'.ino_table = fuse.ino_table
                     /\ fuse'.ino_counter = fuse.ino_counter
                ELSE /\ fuLast'.err = Ok
                     /\ <<fuLast'.attr.ino, dirents[FirstOf(found)].id>>
                            \in fuse'.ino_table]_vars

\* a lookup of an absent name that returned ENOENT, in a root with two dirents
\* of one name and two objects, of which an earlier lookup took the first
C18_Witness ==
    /\ fuLast.op = "lookup" /\ fuLast.err = ENOENT /\ fuLast.ino = FUSE_ROOT_ID
    /\ fuLast.name \in 1..(MaxDirents + 1)
    /\ LET dirents == InoDirents(fuse, FUSE_ROOT_ID)
       IN  /\ Cardinality(Matches(dirents, 1)) = 2
           /\ dirents[1].id # dirents[2].id
           /\ fuse.ino_table = {<<FUSE_ROOT_ID, RootId>>, <<2, dirents[1].id>>}


\* a directory whose names are distinct
DistinctNames(dirents) ==
    \A i, j \in 1..Len(dirents) : dirents[i].name = dirents[j].name => i = j

\* C19: a successful readdir returns one entry per dirent of the directory, in
\* stored order, with the dirent's name, the kind of the dirent's fs object
\* and the inode number the table maps to the dirent's id; in a directory of
\* distinct names, every inode number a lookup has returned for a name is the
\* one every readdir has returned for it, in whichever order they were called
C19_Readdir ==
    /\ (fuLast.op = "readdir" /\ fuLast.err = Ok) =>
          LET dirents == InoDirents(fuse, fuLast.ino)
              entries == fuLast.entries
          IN  /\ Len(entries) = Len(dirents)
              /\ \A i \in 1..Len(dirents) :
                    /\ entries[i].name = dirents[i].name
                    /\ entries[i].kind = IF IsDirId(fsStore, dirents[i].id)
                                         THEN "Directory" ELSE "RegularFile"
                    /\ <<entries[i].ino, dirents[i].id>> \in fuse.ino_table
    /\ \A a, b \in fuHist.named :
          (/\ a[1] = "lookup" /\ b[1] = "readdir"
           /\ a[2] = b[2] /\ a[3] = b[3]
           /\ DistinctNames(InoDirents(fuse, a[2]))) => a[4] = b[4]

\* a root of a Dir and a File under two names, listed by a readdir between the
\* lookup of its second name and the lookup of its first
C19_Witness ==
    /\ fuLast.op = "lookup" /\ fuLast.err = Ok
    /\ fuLast.ino = FUSE_ROOT_ID /\ fuLast.name = 1 /\ fuLast.attr.ino = 3
    /\ LET dirents == InoDirents(fuse, FUSE_ROOT_ID)
       IN  /\ Len(dirents) = 2 /\ DistinctNames(dirents)
           /\ IsDirId(fsStore, dirents[1].id) # IsDirId(fsStore, dirents[2].id)
    /\ fuHist.named = {<<"lookup", FUSE_ROOT_ID, 2, 2>>,
                       <<"readdir", FUSE_ROOT_ID, 1, 3>>,
                       <<"readdir", FUSE_ROOT_ID, 2, 2>>,
                       <<"lookup", FUSE_ROOT_ID, 1, 3>>}


\* ---------------------------------------- the adapter's listings: readdir
\* the libraries listed: a root of up to MaxListDirents dirents, over an empty
\* Dir (id 2), Files (the ids above 2) and the empty-directory sentinel
ListStores ==
    {[id \in FsIds |-> IF id = RootId THEN DirJson(ds)
                       ELSE IF id = RootId + 1 THEN DirJson(<<>>)
                       ELSE FuseFile(id)] :
       ds \in UNION {{[i \in 1..n |-> DirentJson(t[i], i)] :
                        t \in [1..n -> (FsIds \ {RootId}) \cup {EMPTY_SHA1}]} :
                      n \in 0..MaxListDirents}}

\* the reply buffers tried, and the offsets tried out of a listing: one below
\* the first index, one inside the directory, one past its end
ListCaps == 1..MaxReplyEntries
ListOffsets == {0 - 1, MaxReplyEntries, MaxListDirents + 1}

InitFuseList ==
    /\ fsStore \in ListStores
    /\ blockStore = FuseBlockStore
    /\ fuse = SeafFuseNew(RootId)
    /\ fuLast = NoFuseCall
    /\ fuHist = NoFuseHist
    /\ ReaderUnused
    /\ WalkerUnused
    /\ ToolsIdle

\* a mount seen from its listings: directories listed in pieces, readdir at
\* any offset, and the lookups of the root's first names
NextFuseList ==
    \/ FuseList(InoArgs, ListCaps, FsFaults)
    \/ FuseReaddirAt({FUSE_ROOT_ID}, ListOffsets, ListCaps)
    \/ FuseLookup({FUSE_ROOT_ID}, 1..MaxDirents, {{}})

SpecFuseList == InitFuseList /\ [][NextFuseList]_vars

\* the entry of the dirent of index i of the directory of inode `ino`
ListEntry(f, ino, i) ==
    LET de == InoDirents(f, ino)[i]
    IN  [ino |-> (CHOOSE p \in get_by_right(f.ino_table, de.id) : TRUE)[1],
         offset |-> i,
         kind |-> IF IsDirId(fsStore, de.id) THEN "Directory" ELSE "RegularFile",
         name |-> de.name]

\* C20: a successful kernel-facing readdir with offset o and a buffer of c
\* entries replies with the entries of index o + 1 .. min(n, o + c), numbered
\* from 1; so a directory of n entries listed in pieces, each call with the
\* offset of the last entry received, has been received as its entries once
\* each in stored order, every call but the last has brought an entry, and the
\* empty reply comes when, and only when, all n have been received
C20_ListProtocol ==
    /\ (fuLast.op = "Filesystem::readdir" /\ fuLast.err = Ok) =>
          LET n     == Len(InoDirents(fuse, fuLast.ino))
              o     == IF fuLast.offset < 0 THEN 0 ELSE fuLast.offset
              count == IF o >= n THEN 0 ELSE Min(fuLast.size, n - o)
          IN  fuLast.entries = [k \in 1..count |-> ListEntry(fuse, fuLast.ino, o + k)]
    /\ fuHist.listing.dir # 0 =>
          LET l == fuHist.listing
              n == Len(InoDirents(fuse, l.dir))
          IN  /\ Len(l.received) <= n
              /\ \A i \in 1..Len(l.received) : l.received[i] = ListEntry(fuse, l.dir, i)
              /\ l.done => Len(l.received) = n
              /\ l.calls >= 1
              /\ l.calls <= Len(l.received) + (IF l.done THEN 1 ELSE 0)

\* a directory of MaxListDirents entries, Dirs and Files, received in three
\* calls: twice a full buffer, then the empty reply
C20_Witness ==
    /\ fuHist.listing.dir = FUSE_ROOT_ID /\ fuHist.listing.done
    /\ fuHist.listing.calls = 3
    /\ Len(fuHist.listing.received) = MaxListDirents
    /\ fuLast.op = "Filesystem::readdir" /\ fuLast.entries = <<>>
    /\ fuLast.offset = MaxListDirents
    /\ \E i, j \in 1..MaxListDirents :
          fuHist.listing.received[i].kind # fuHist.listing.received[j].kind


\* ------------------------------------------- Library::open's specification
\* the commits directories tried: up to MaxCommits entries, each an error, a
\* directory, a file that does not decode, or the commit object whose id is
\* its place and whose ctime is any of 1..MaxCtime
WalkEntries(i) ==
    {WalkErr, WalkDirectory, WalkBadFile}
        \cup {WalkCommit(CommitJson(i, RootId, ctime)) : ctime \in 1..MaxCtime}
CommitScans ==
    UNION {{s \in [1..n -> UNION {WalkEntries(i) : i \in 1..n}] :
              \A i \in 1..n : s[i] \in WalkEntries(i)} :
           n \in 0..MaxCommits}

InitOpen ==
    /\ commits \in CommitScans
    /\ library = NotOpened
    /\ Sha1Idle
    /\ ExtractIdle
    /\ ReaderIdle
    /\ WalkerIdle
    /\ FuseIdle

\* Library::open(repo_path, uuid)
Open ==
    /\ library' = LibraryOpen(commits)
    /\ UNCHANGED <<commits, sha1Vars, extractVars, readerVars, walkerVars, fuseVars>>

NextOpen == Open

SpecOpen == InitOpen /\ [][NextOpen]_vars

\* the places of the commit objects in the scan
CommitsFound == {i \in 1..Len(commits) : commits[i].kind = "file" /\ commits[i].parsed}

\* C21: the head commit of an opened library is the commit of the largest
\* ctime among the commits scanned, and the first of them in the order of the
\* scan when several have that ctime
C21_HeadCommit ==
    (library.opened /\ library.err = Ok) =>
        \E i \in CommitsFound :
            /\ library.head_commit = commits[i].commit
            /\ \A j \in CommitsFound : commits[j].commit.ctime <= commits[i].commit.ctime
            /\ \A j \in CommitsFound :
                  commits[j].commit.ctime = commits[i].commit.ctime => i <= j

\* three commits, the largest ctime shared by the second and the third: the
\* second is the head
C21_Witness ==
    /\ library.opened /\ library.err = Ok
    /\ CommitsFound = 1..3
    /\ commits[1].commit.ctime < commits[2].commit.ctime
    /\ commits[2].commit.ctime = commits[3].commit.ctime
    /\ library.head_commit.commit_id = 2

SentinelStores ==
    {[id \in FsIds |-> IF s[id].kind = "File" THEN FuseFile(id) ELSE s[id]] :
       s \in {t \in FsStores :
                 /\ SumSeq([i \in FsIds |-> Len(t[i].dirents)]) = MaxTreeDirents
                 /\ ReachFrom(t, RootId) = FsIds
                 /\ \E i \in FsIds : t[i].kind = "File"
                 /\ \E id \in FsIds : \E i \in 1..Len(t[id].dirents) :
                        t[id].dirents[i].id = EMPTY_SHA1}}

\* the object files that cannot be read during a call of the adapter: none,
\* or all but the root's
SentinelFaults == {{}, FsIds \ {RootId}}

\* a library is opened whose head commit has the root_id of the store's root,
\* or the all-zero hash; it is walked, next to an adapter whose root is the
\* all-zero hash, or mounted, next to a walker whose root is the all-zero hash
InitSentinel ==
    /\ fsStore \in SentinelStores
    /\ blockStore = FuseBlockStore
    /\ \E root_id \in {EMPTY_SHA1, RootId} :
          /\ commits = <<WalkCommit(CommitJson(1, root_id, 1))>>
          /\ library = LibraryOpen(commits)
    /\ \/ /\ walker = FsIteratorNew(library.head_commit.root_id)
          /\ fuse = SeafFuseNew(EMPTY_SHA1)
       \/ /\ walker = FsIteratorNew(EMPTY_SHA1)
          /\ fuse = SeafFuseNew(library.head_commit.root_id)
    /\ wkLast = NoWalkerCall
    /\ wkOut = <<>>
    /\ wkHist = NoHist
    /\ fuLast = NoFuseCall
    /\ fuHist = NoFuseHist
    /\ ReaderUnused
    /\ Sha1Idle
    /\ ExtractIdle

NextSentinel ==
    \/ WkNext
    \/ FuseLookup(InoArgs, 1..MaxDirents, SentinelFaults)
    \/ FuseGetattr(InoArgs, SentinelFaults)
    \/ FuseReaddir(InoArgs, SentinelFaults)

SpecSentinel == InitSentinel /\ [][NextSentinel]_vars

\* the inode of the all-zero hash
SentinelIno(f, ino) == <<ino, EMPTY_SHA1>> \in f.ino_table

\* C23: the all-zero hash loads as an empty Dir whatever object files can be
\* read: getattr on its inode reports a directory, readdir on its inode
\* returns no entry, a lookup of a dirent of that hash in the root succeeds
\* with a directory, no error of the walker comes from a load of it, the
\* walker yields a dirent of it as a Dir that holds nothing, and a walk from
\* it as the root ends at once without an entry
C23_Sentinel ==
    /\ load_fs(fsStore, FsIds, EMPTY_SHA1) = [ok |-> TRUE, fs |-> EMPTY_DIR_JSON]
    /\ (fuLast.op = "getattr" /\ SentinelIno(fuse, fuLast.ino)) =>
          /\ fuLast.err = Ok
          /\ fuLast.attr.kind = "Directory" /\ fuLast.attr.ino = fuLast.ino
    /\ (fuLast.op = "readdir" /\ SentinelIno(fuse, fuLast.ino)) =>
          (fuLast.err = Ok /\ fuLast.entries = <<>>)
    /\ (/\ fuLast.op = "lookup" /\ fuLast.ino = FUSE_ROOT_ID
        /\ Matches(InoDirents(fuse, FUSE_ROOT_ID), fuLast.name) # {}
        /\ InoDirents(fuse, FUSE_ROOT_ID)[
              FirstOf(Matches(InoDirents(fuse, FUSE_ROOT_ID), fuLast.name))].id
                = EMPTY_SHA1) =>
          /\ fuLast.err = Ok
          /\ fuLast.attr.kind = "Directory" /\ SentinelIno(fuse, fuLast.attr.ino)
    /\ (wkLast.call = "next" /\ wkLast.ret = "err") =>
          wkLast.loads[Len(wkLast.loads)] # EMPTY_SHA1
    /\ (wkLast.call = "next" /\ wkLast.ret = "item" /\ wkLast.de.id = EMPTY_SHA1) =>
          /\ wkLast.kind = "Dir"
          /\ walker.stack[Len(walker.stack)] = <<>>
          /\ walker.path = Append(wkLast.path_before, wkLast.de.name)
    /\ (wkLast.call = "next" /\ wkOut = <<>> /\ wkLast.loads # <<>>
        /\ wkLast.loads[1] = EMPTY_SHA1) =>
          (wkLast.ret = "none" /\ wkLast.loads = <<EMPTY_SHA1>>)

\* the walker has yielded a dirent of the all-zero hash below the root, and the
\* root of the adapter, which is of that hash, has been listed
C23_Witness ==
    /\ wkLast.call = "next" /\ wkLast.ret = "item" /\ wkLast.de.id = EMPTY_SHA1
    /\ wkLast.path_before # <<>>
    /\ fuLast.op = "readdir" /\ fuLast.ino = FUSE_ROOT_ID
    /\ SentinelIno(fuse, FUSE_ROOT_ID)
    /\ fuLast.err = Ok /\ fuLast.entries = <<>>


\* --------------------------------------------------- Sha1's specification
\* the number of characters a string tried is shorter or longer than a hash
MaxHexExtra == 1

\* the strings tried: five words, each in lower case, in upper and lower case,
\* with a sign, or with a letter that is no digit; cut short or drawn out by
\* up to MaxHexExtra characters; and the strings of tests/test_repo.rs
HexWords ==
    {<<"e", "4", "0", "b", "8", "9", "4", "8">>,
     <<"E", "4", "0", "B", "8", "9", "a", "F">>,
     <<"+", "4", "0", "b", "8", "9", "4", "8">>,
     <<"e", "4", "0", "b", "8", "9", "4", "g">>}
HexStrings ==
    LET whole == {Concat(w) : w \in [1..Sha1Words -> HexWords]}
    IN  whole
        \cup {SubSeq(s, 1, Len(s) - k) : s \in whole, k \in 1..MaxHexExtra}
        \cup {s \o [i \in 1..k |-> "0"] : s \in whole, k \in 1..MaxHexExtra}
        \cup {<<>>, <<"1", "2", "3", "4">>}

InitSha1 ==
    /\ hex \in HexStrings
    /\ sha1 = NoSha1Call
    /\ OpenIdle
    /\ ExtractIdle
    /\ ReaderIdle
    /\ WalkerIdle
    /\ FuseIdle

\* Sha1::parse(hex)
Sha1ParseHex ==
    /\ sha1.op = "new"
    /\ \E r \in {Sha1Parse(hex)} :
          sha1' = Sha1Call("parse", r.some, r.sha, <<>>, NoSha1)
    /\ UNCHANGED <<hex, openVars, extractVars, readerVars, walkerVars, fuseVars>>

\* sha.to_string() of the Sha1 that was parsed
Sha1ToString ==
    /\ sha1.op = "parse" /\ sha1.some
    /\ sha1' = Sha1Call("to_string", TRUE, sha1.sha, Sha1Display(sha1.sha), sha1.sha)
    /\ UNCHANGED <<hex, openVars, extractVars, readerVars, walkerVars, fuseVars>>

\* Sha1::parse of the string that was written
Sha1ParseWritten ==
    /\ sha1.op = "to_string"
    /\ \E r \in {Sha1Parse(sha1.text)} :
          sha1' = Sha1Call("parse written", r.some, r.sha, sha1.text, sha1.written)
    /\ UNCHANGED <<hex, openVars, extractVars, readerVars, walkerVars, fuseVars>>

NextSha1 == Sha1ParseHex \/ Sha1ToString \/ Sha1ParseWritten

SpecSha1 == InitSha1 /\ [][NextSha1]_vars

\* a string of exactly 40 hexadecimal characters, and its lower case
HexChars == {HexLower[i] : i \in 1..16} \cup {HexUpper[i] : i \in 1..16}
IsHex40(s) == Len(s) = 40 /\ \A i \in 1..Len(s) : s[i] \in HexChars
ToLower(s) ==
    [i \in 1..Len(s) |->
       IF \E k \in 11..16 : HexUpper[k] = s[i]
       THEN HexLower[CHOOSE k \in 11..16 : HexUpper[k] = s[i]] ELSE s[i]]

\* C24: Sha1::parse of a string of exactly 40 hexadecimal characters, upper or
\* lower case, succeeds, and the result is written as the string in lower
\* case; the parse of what a Sha1 is written as gives an equal Sha1
C24_Roundtrip ==
    /\ IsHex40(hex) =>
          /\ sha1.op = "parse" => sha1.some
          /\ sha1.op = "to_string" => sha1.text = ToLower(hex)
    /\ sha1.op = "parse written" => (sha1.some /\ sha1.sha = sha1.written)

\* a string with upper case letters, parsed, written in lower case and parsed
\* again
C24_Witness ==
    /\ sha1.op = "parse written" /\ sha1.some
    /\ IsHex40(hex) /\ hex # ToLower(hex)
    /\ sha1.text = ToLower(hex)
    /\ \E i, j \in 0..(Sha1Words - 1) : sha1.sha.words[i] # sha1.sha.words[j]

\* C25: Sha1::parse returns None for every string whose length is not 40 and
\* for every string that holds a character that is no hexadecimal digit
C25_Malformed ==
    (sha1.op = "parse" /\ ~IsHex40(hex)) => ~sha1.some


\* C26: an attribute returned by lookup or getattr has the inode number the
\* table maps to the object's id (for getattr, the number asked for), nlink 1,
\* uid, gid, blocks, rdev and flags 0 and every time at the epoch; for a Dir,
\* size 0, kind Directory and perm 0o755 (493); for a File, the size field of
\* the File object, kind RegularFile and perm 0o644 (420)
C26_Attr ==
    (fuLast.op \in {"lookup", "getattr"} /\ fuLast.err = Ok) =>
        LET a  == fuLast.attr
            id == lookup_id_by_ino(fuse, a.ino).id
        IN  /\ Known(fuse, a.ino)
            /\ fuLast.op = "getattr" => a.ino = fuLast.ino
            /\ fuLast.op = "lookup" =>
                  \E i \in 1..Len(InoDirents(fuse, fuLast.ino)) :
                      /\ InoDirents(fuse, fuLast.ino)[i].name = fuLast.name
                      /\ InoDirents(fuse, fuLast.ino)[i].id = id
            /\ a.nlink = 1 /\ a.uid = 0 /\ a.gid = 0
            /\ a.blocks = 0 /\ a.rdev = 0 /\ a.flags = 0
            /\ a.atime = "UNIX_EPOCH" /\ a.mtime = "UNIX_EPOCH"
            /\ a.ctime = "UNIX_EPOCH" /\ a.crtime = "UNIX_EPOCH"
            /\ IF IsDirId(fsStore, id)
               THEN a.size = 0 /\ a.kind = "Directory" /\ a.perm = 493
               ELSE /\ a.size = fsStore[id].size
                    /\ a.kind = "RegularFile" /\ a.perm = 420

\* a lookup that returned the attribute of a File that is not empty, under an
\* inode number allocated after another
C26_Witness ==
    /\ fuLast.op = "lookup" /\ fuLast.err = Ok
    /\ fuLast.attr.kind = "RegularFile" /\ fuLast.attr.size > 0
    /\ fuLast.attr.ino > FUSE_ROOT_ID + 1


\* C27: seek sets byte_pos to the target, relative to the start, the end or
\* the current position; a negative target relative to the end or the current
\* position is an error that leaves byte_pos as it was; a target past the end
\* of the file is accepted, and the reader's blocks are not touched
C27_Seek ==
    [][rdLast'.op = "seek" =>
         LET target == CASE rdLast'.from = "Start"   -> rdLast'.arg
                         [] rdLast'.from = "End"     ->
                                reader.block_reader.size + rdLast'.arg
                         [] rdLast'.from = "Current" -> reader.byte_pos + rdLast'.arg
         IN  /\ reader'.block_reader = reader.block_reader
             /\ IF rdLast'.from # "Start" /\ target < 0
                THEN ~rdLast'.ok /\ reader'.byte_pos = reader.byte_pos
                ELSE rdLast'.ok /\ reader'.byte_pos = target]_vars


\* C28: once clear has been called, in whatever state the walker was, or once
\* next has returned none, every later next returns none and loads no fs
\* object, whatever calls of prune and clear come in between
C28_Ended ==
    [][((wkHist.cleared \/ wkHist.ended) /\ wkLast'.call = "next")
          => (wkLast'.ret = "none" /\ wkLast'.loads = <<>>)]_vars

\* clear was called on a walker that had not ended, in a tree with entries not
\* yet yielded, prune was called too, and a later next returned none and loaded
\* nothing
C28_Witness ==
    /\ wkHist.clearedLive /\ wkHist.prunes >= 1
    /\ wkHist.ended
    /\ wkLast.call = "next" /\ wkLast.ret = "none" /\ wkLast.loads = <<>>
    /\ wkOut # <<>>
    /\ Len(wkOut) < Cardinality(TreeEntries)


\* ----------------------------------------------- match_prefix's specification
\* the characters of the paths tried: two letters, the separator and the dot
PathChars == {"a", "b", Separator, "."}
PathStrings == UNION {[1..n -> PathChars] : n \in 0..MaxPathLen}

InitPrefix ==
    /\ prefix \in PathStrings
    /\ pmLast = NoMatchCall
    /\ materialized = NoneMaterialized
    /\ ReaderIdle
    /\ WalkerIdle
    /\ FuseIdle
    /\ OpenIdle
    /\ Sha1Idle

\* match_prefix(prefix, path), for any path
MatchPrefix ==
    \E path \in PathStrings :
        /\ pmLast' = MatchCall(path, match_prefix(prefix, path))
        /\ UNCHANGED <<prefix, materialized, openVars, sha1Vars, readerVars, walkerVars,
                       fuseVars>>

NextPrefix == MatchPrefix

SpecPrefix == InitPrefix /\ [][NextPrefix]_vars

\* ------------------------------------------------------ match_prefix's claims
\* q is p, or lies under p: the components of p are the first ones of q
UnderOrEqual(q, p) ==
    \E k \in 0..Len(q) : SubSeq(q, 1, k) = p

\* C29: match_prefix compares whole path components. For the prefix P and the
\* path X it returns Yes when P is empty or X is P or lies under P, Continue when
\* X is a strict ancestor of P (the empty path is one of every non-empty P), and
\* No otherwise; exactly one of the three holds
C29_Prefix ==
    pmLast.called =>
        LET P        == Components(prefix)
            X        == Components(pmLast.path)
            yes      == prefix = <<>> \/ UnderOrEqual(X, P)
            continue == UnderOrEqual(P, X) /\ X # P
        IN  /\ pmLast.ret \in {Yes, Continue, No}
            /\ pmLast.ret = Yes <=> yes
            /\ pmLast.ret = Continue <=> continue
            /\ pmLast.ret = No <=> (~yes /\ ~continue)
            /\ ~(yes /\ continue)
            /\ (pmLast.path = <<>> /\ prefix # <<>>) => pmLast.ret = Continue

\* a path whose string starts with the string of the prefix, but whose first
\* component is another name: the answer is No
C29_Witness ==
    /\ pmLast.called
    /\ prefix = <<"a">>
    /\ pmLast.path = <<"a", "b">>
    /\ pmLast.ret = No


\* -------------------------------------------------- do_extract's specification
\* do_extract on the library whose head commit's root is RootId, with any
\* prefix: the target is empty and the walker is new
InitExtract ==
    /\ fsStore \in FsStores
    /\ walker = FsIteratorNew(RootId)
    /\ wkLast = NoWalkerCall
    /\ wkOut = <<>>
    /\ wkHist = NoHist
    /\ prefix \in PathStrings
    /\ pmLast = NoMatchCall
    /\ materialized = NoneMaterialized
    /\ ReaderIdle
    /\ FuseIdle
    /\ OpenIdle
    /\ Sha1Idle

\* one turn of the loop of do_extract: it.next(), and the loop's body for the
\* entry. The loop ends when next returns none; an error of next panics
ExtractTurn(dry_runs) ==
    /\ ~WalkEnded
    /\ wkHist.errors = 0
    /\ \E dry_run \in dry_runs, bad \in LoadFailures(walker) :
         \E r \in {next_result(fsStore, bad, walker)} :
         \E x \in {IF r.ret = "item"
                    THEN ExtractEntry(prefix, r.state, materialized, r.path_before, r.de,
                                      dry_run)
                    ELSE [rel |-> "", state |-> r.state, pruned |-> FALSE,
                          done |-> materialized]} :
            /\ walker' = x.state
            /\ wkLast' = [call |-> "next", ret |-> r.ret, path_before |-> r.path_before,
                          de |-> r.de, kind |-> r.kind, loads |-> r.loads]
            /\ wkOut' = IF r.ret = "item"
                        THEN Append(wkOut, [parent |-> r.path_before, name |-> r.de.name,
                                            id |-> r.de.id, kind |-> r.kind])
                        ELSE wkOut
            /\ wkHist' = [wkHist EXCEPT
                            !.errors = IF r.ret = "err" THEN @ + 1 ELSE @,
                            !.loaded = @ \/ r.loads # <<>>,
                            !.ended = @ \/ r.ret = "none",
                            !.prunes = IF x.pruned THEN Min(@ + 1, 2) ELSE @,
                            !.pruneAt = IF x.pruned /\ wkHist.prunes = 0
                                        THEN Len(wkOut) + 1 ELSE @,
                            !.pruneAfterYield = @ \/ x.pruned]
            /\ pmLast' = IF r.ret = "item"
                         THEN MatchCall(PathString(r.path_before), x.rel) ELSE pmLast
            /\ materialized' = x.done
            /\ UNCHANGED <<prefix, fsStore, openVars, sha1Vars, readerVars, fuseVars>>

NextExtract == ExtractTurn({FALSE})

SpecExtract == InitExtract /\ [][NextExtract]_vars

\* --------------------------------------------------------- do_extract's claims
\* the entries of the tree whose parent_path is the prefix or lies under it
UnderPrefix ==
    {e \in TreeEntries :
       prefix = <<>> \/ UnderOrEqual(Components(PathString(e[1])), Components(prefix))}

C31_PruneFile ==
    (/\ wkHist.prunes = 1 /\ wkHist.pruneAfterYield
     /\ ~wkHist.cleared /\ wkHist.errors = 0
     /\ wkOut[wkHist.pruneAt].kind = "File") =>
        LET F      == wkOut[wkHist.pruneAt]
            Before == {<<wkOut[j].parent, wkOut[j].name>> : j \in 1..wkHist.pruneAt}
            Kept   == {e \in TreeEntries : ~IsPrefix(F.parent, e[1])}
        IN  /\ \A j \in (wkHist.pruneAt + 1)..Len(wkOut) :
                  ~IsPrefix(F.parent, wkOut[j].parent)
            /\ Len(wkOut) > wkHist.pruneAt =>
                  /\ F.parent # <<>>
                  /\ IsPrefix(wkOut[wkHist.pruneAt + 1].parent, PathPop(F.parent))
            /\ NoDupOut
            /\ OutPairs \subseteq Before \cup Kept
            /\ WalkEnded => OutPairs = Before \cup Kept

\* a finished walk in which prune came after a File below the root that had a
\* sibling not yet yielded: the sibling was never yielded, and entries of the
\* directories above were yielded after the prune
C31_Witness ==
    /\ wkHist.prunes = 1 /\ wkHist.pruneAfterYield
    /\ ~wkHist.cleared /\ wkHist.errors = 0
    /\ wkOut[wkHist.pruneAt].kind = "File"
    /\ WalkEnded
    /\ Len(wkOut) > wkHist.pruneAt
    /\ \E e \in TreeEntries \ OutPairs : e[1] = wkOut[wkHist.pruneAt].parent


\* C32: in a walk without load errors, whatever calls of next, prune and clear
\* are made, no (parent_path, name) entry is yielded twice, every yielded entry
\* is an entry of the tree, and once as many entries as the tree has were
\* yielded, next returns none: the walk ends after at most that many yields
C32_Terminates ==
    wkHist.errors = 0 =>
        /\ NoDupOut
        /\ OutPairs \subseteq TreeEntries
        /\ Len(wkOut) <= Cardinality(TreeEntries)
        /\ Len(wkOut) = Cardinality(TreeEntries) =>
              next_result(fsStore, {}, walker).ret = "none"
        /\ (wkLast.call = "next" /\ wkLast.ret # "none") => wkLast.ret = "item"

\* a walk with several prunes that has ended after yielding three entries or
\* more, fewer than the tree has
C32_Witness ==
    /\ wkHist.errors = 0
    /\ wkHist.prunes = 2
    /\ WalkEnded
    /\ Len(wkOut) >= 3
    /\ Len(wkOut) < Cardinality(TreeEntries)


\* the path of the i-th yielded entry
OutPath(i) == Append(wkOut[i].parent, wkOut[i].name)
\* the id of the directory at a path below the Dir `id`
RECURSIVE DirAt(_, _, _)
DirAt(store, id, path) ==
    IF path = <<>> THEN id
    ELSE LET ds == DirentsOfId(store, id)
             i  == CHOOSE n \in 1..Len(ds) : ds[n].name = path[1]
         IN  DirAt(store, ds[i].id, Tail(path))
\* the place of an entry in the stored order of the dirents of its directory
StoredPlace(parent, name) ==
    LET ds == DirentsOfId(fsStore, DirAt(fsStore, RootId, parent))
    IN  CHOOSE n \in 1..Len(ds) : ds[n].name = name

\* C33: with no prune, no clear and no load error, the entries of one directory
\* are yielded in the reverse of their stored order, a Dir entry is yielded
\* before everything below it, and everything below a Dir is yielded before the
\* next sibling of that Dir
C33_PreOrder ==
    (wkHist.prunes = 0 /\ ~wkHist.cleared /\ wkHist.errors = 0) =>
        /\ \A i, j \in 1..Len(wkOut) :
              (i < j /\ wkOut[i].parent = wkOut[j].parent)
                 => StoredPlace(wkOut[i].parent, wkOut[i].name)
                      > StoredPlace(wkOut[j].parent, wkOut[j].name)
        /\ \A j \in 1..Len(wkOut) :
              wkOut[j].parent # <<>> =>
                 \E i \in 1..(j - 1) : wkOut[i].kind = "Dir" /\ OutPath(i) = wkOut[j].parent
        /\ \A i, j, k \in 1..Len(wkOut) :
              (i < j /\ j < k /\ IsPrefix(OutPath(i), wkOut[k].parent))
                 => IsPrefix(OutPath(i), wkOut[j].parent)

\* a finished walk that yielded a Dir, then an entry inside it, then a sibling of
\* the Dir that is stored before it
C33_Witness ==
    /\ wkHist.prunes = 0 /\ ~wkHist.cleared /\ wkHist.errors = 0
    /\ WalkEnded
    /\ \E i, j, k \in 1..Len(wkOut) :
          /\ i < j /\ j < k
          /\ wkOut[i].kind = "Dir"
          /\ wkOut[j].parent = OutPath(i)
          /\ wkOut[k].parent = wkOut[i].parent
          /\ StoredPlace(wkOut[k].parent, wkOut[k].name)
               < StoredPlace(wkOut[i].parent, wkOut[i].name)


\* the path names a directory below the Dir `id`, component by component
RECURSIVE Resolves(_, _, _)
Resolves(store, id, path) ==
    \/ path = <<>>
    \/ LET ds == DirentsOfId(store, id)
       IN  \E n \in 1..Len(ds) :
              /\ ds[n].name = path[1]
              /\ IsDirId(store, ds[n].id)
              /\ Resolves(store, ds[n].id, Tail(path))

\* the dirents of the directory at a path below the root
DirentsAt(path) == DirentsOfId(fsStore, DirAt(fsStore, RootId, path))

\* C34: in every NotRoot state that next, prune and clear reach, the path is
\* empty when the stack is empty and has one component fewer than the stack has
\* frames otherwise; its components name the directories of the frames above the
\* root's, in order; and the parent_path of every yielded entry is the path of
\* the directory that holds the yielded dirent
C34_PathStack ==
    /\ walker.tag = "NotRoot" =>
          /\ walker.stack = <<>> => walker.path = <<>>
          /\ walker.stack # <<>> =>
                /\ Len(walker.path) = Len(walker.stack) - 1
                /\ Resolves(fsStore, RootId, walker.path)
                /\ \A k \in 1..Len(walker.stack) :
                      IsPrefix(walker.stack[k], DirentsAt(SubSeq(walker.path, 1, k - 1)))
    /\ \A i \in 1..Len(wkOut) :
          /\ Resolves(fsStore, RootId, wkOut[i].parent)
          /\ \E n \in 1..Len(DirentsAt(wkOut[i].parent)) :
                DirentsAt(wkOut[i].parent)[n] = DirentJson(wkOut[i].id, wkOut[i].name)

\* a walker three frames deep, after a prune and a frame that was used up: the
\* path has two components
C34_Witness ==
    /\ walker.tag = "NotRoot"
    /\ Len(walker.stack) = 3
    /\ Len(walker.path) = 2
    /\ wkHist.prunes >= 1
    /\ Len(wkOut) >= 3


\* ------------------------------------------------ the reader's claims, continued
\* the blocks (0-based) that hold the byte at an offset
BlocksHolding(fbr, offset) ==
    {i \in 0..(Len(fbr.block_ids) - 1) :
       /\ fbr.block_starts[i + 1] <= offset
       /\ offset < fbr.block_starts[i + 1] + fbr.block_sizes[i + 1]}

\* C35: for every list of block sizes, with blocks of length zero and the empty
\* list among them, and every offset, find_start_block returns what the linear
\* scan of the earlier implementation returns: below the file's size the one
\* block that holds the offset and the offset within it, none from the size on
C35_Bisect ==
    \A offset \in SeekPositions :
        LET fbr == reader.block_reader
            r   == find_start_block(fbr, offset)
        IN  /\ r = find_start_block_linear(fbr, offset)
            /\ offset >= fbr.size => ~r.some
            /\ offset < fbr.size =>
                  /\ r.some
                  /\ BlocksHolding(fbr, offset) = {r.block_idx}
                  /\ r.block_offset = offset - fbr.block_starts[r.block_idx + 1]

\* a read that returned bytes and began at the start of a block of length zero
\* which is neither the first nor the last block of the file
C35_Witness ==
    /\ rdLast.op = "read" /\ rdLast.ok /\ rdLast.n > 0
    /\ \E i \in 2..(Len(reader.block_reader.block_ids) - 1) :
          /\ reader.block_reader.block_sizes[i] = 0
          /\ reader.block_reader.block_starts[i] = rdLast.pos
          /\ rdLast.pos > 0


\* ----------------------------------------------- the adapter's claims, continued
\* the bytes of the file a handle was opened on: its blocks, one after another
RECURSIVE BlocksBytes(_, _)
BlocksBytes(blocks, block_ids) ==
    IF block_ids = <<>> THEN <<>>
    ELSE blocks[Head(block_ids)].bytes \o BlocksBytes(blocks, Tail(block_ids))
HandleBytes(f, fh) ==
    BlocksBytes(blockStore, f.open_file_table[fh].reader.block_reader.block_ids)

\* C36: a read on an open handle with an offset that is not negative returns the
\* bytes offset .. min(offset + size, file size) of the file the handle was
\* opened on, whatever was read on the handle before and whatever was opened,
\* read and released on other handles; it fails only when a block cannot be read
C36_ReadBytes ==
    [][(fuLast'.op = "read" /\ fuLast'.offset >= 0
          /\ fuLast'.fh \in DOMAIN fuse.open_file_table) =>
            LET bytes == HandleBytes(fuse, fuLast'.fh)
            IN  /\ fuLast'.err \in {Ok, EIO}
                /\ fuLast'.err = EIO => fuLast'.faulted
                /\ fuLast'.err = Ok =>
                      fuLast'.data = SubSeq(bytes, fuLast'.offset + 1,
                                            Min(fuLast'.offset + fuLast'.size, Len(bytes)))
      ]_vars

\* two handles open on the same file of several blocks; the first has been read
\* and stands past the start, and a read on the second from offset 1 returned
\* the rest of the file
C36_Witness ==
    /\ fuLast.op = "read" /\ fuLast.err = Ok /\ fuLast.fh = 2 /\ fuLast.offset = 1
    /\ Len(fuLast.data) >= 2
    /\ DOMAIN fuse.open_file_table = {1, 2}
    /\ fuse.open_file_table[1].reader.block_reader = fuse.open_file_table[2].reader.block_reader
    /\ fuse.open_file_table[1].reader.byte_pos = 1
    /\ fuLast.data = SubSeq(HandleBytes(fuse, 2), 2, Len(HandleBytes(fuse, 2)))


\* -------------------------------------- the reader over a store that is damaged
\* the block objects are as FileBlockReader::new recorded them
Undamaged ==
    \A i \in 1..Len(reader.block_reader.block_ids) :
        LET file == blockStore[reader.block_reader.block_ids[i]]
        IN  file.exists /\ Len(file.bytes) = reader.block_reader.block_sizes[i]

\* after the reader was built, one block object is removed or loses its last
\* byte
Damage ==
    /\ Undamaged
    /\ \E i \in 1..Len(reader.block_reader.block_ids) :
         LET id   == reader.block_reader.block_ids[i]
             file == blockStore[id]
         IN  \/ blockStore' = [blockStore EXCEPT ![id] = NoObject]
             \/ /\ file.bytes # <<>>
                /\ blockStore' = [blockStore EXCEPT
                                    ![id] = BlockObject(VecPop(file.bytes))]
    /\ UNCHANGED <<toolVars, readerOnly, walkerVars, fuseVars>>

NextReaderDamage == Seek \/ Read \/ Damage

SpecReaderDamage == InitReader /\ [][NextReaderDamage]_vars

\* C37: a read that succeeds moves byte_pos on by the number of bytes it
\* returns; a read that fails, because a block object is missing or shorter than
\* its recorded length, returns an error and leaves byte_pos where it was, also
\* when blocks before the failing one were read in the same call
C37_ReadAdvance ==
    [][(rdLast'.op = "read" /\ blockStore' = blockStore) =>
         /\ reader'.block_reader = reader.block_reader
         /\ rdLast'.ok =>
               /\ rdLast'.n = Len(rdLast'.data)
               /\ reader'.byte_pos = reader.byte_pos + rdLast'.n
         /\ ~rdLast'.ok =>
               /\ ~Undamaged
               /\ rdLast'.data = <<>>
               /\ reader'.byte_pos = reader.byte_pos]_vars

\* a read from a position past the start that failed at a damaged block after
\* the block it started in, which is intact, had been read to its end
C37_Witness ==
    /\ rdLast.op = "read" /\ ~rdLast.ok
    /\ rdLast.pos > 0 /\ reader.byte_pos = rdLast.pos
    /\ LET fbr == reader.block_reader
           sb  == find_start_block(fbr, rdLast.pos)
       IN  /\ sb.some
           /\ blockStore[fbr.block_ids[sb.block_idx + 1]].exists
           /\ Len(blockStore[fbr.block_ids[sb.block_idx + 1]].bytes)
                 = fbr.block_sizes[sb.block_idx + 1]
           /\ rdLast.len > fbr.block_sizes[sb.block_idx + 1] - sb.block_offset


\* C38: an open that fails, because the inode is not in the table, the fs object
\* cannot be loaded, the object is a Dir, or a block object is missing when the
\* reader is built, leaves the open-file table, the file-handle counter and the
\* inode table as they were; a successful open returns the counter and moves it
\* on by one, so a failed attempt does not change the handle the next one gets
C38_FailedOpen ==
    [][fuLast'.op = "open" =>
         /\ fuLast'.err # Ok => fuse' = fuse
         /\ fuLast'.err = Ok =>
               /\ fuLast'.rfh = fuse.file_handle_counter
               /\ fuse'.file_handle_counter = fuse.file_handle_counter + 1
               /\ fuse'.ino_table = fuse.ino_table
               /\ DOMAIN fuse'.open_file_table =
                     DOMAIN fuse.open_file_table \cup {fuLast'.rfh}]_vars

\* an open of a File that failed at a missing block, with one handle issued
\* before it and still open
C38_Witness ==
    /\ fuLast.op = "open" /\ fuLast.err = EIO /\ fuLast.faulted
    /\ ~InoIsDir(fuse, fuLast.ino)
    /\ fuse.file_handle_counter = 2
    /\ DOMAIN fuse.open_file_table = {1}


\* the inode numbers of the table are the root's up to the counter's predecessor,
\* and every open handle is below the handle counter
Consecutive(f) ==
    /\ Lefts(f.ino_table) = FUSE_ROOT_ID..(f.ino_counter - 1)
    /\ \A fh \in DOMAIN f.open_file_table : fh < f.file_handle_counter
\* the place of the first entry of a listing that has the inode number
FirstAt(entries, ino) ==
    CHOOSE i \in 1..Len(entries) :
        entries[i].ino = ino /\ \A j \in 1..(i - 1) : entries[j].ino # ino
InoOps == {"lookup", "readdir"}

\* C39: in every reachable state the inode numbers of the inode table are
\* exactly FUSE_ROOT_ID .. ino_counter - 1, the numbers being given out one
\* after another in the order in which the objects are first referred to; only
\* lookup and readdir change the inode table or ino_counter; and every key of
\* the open-file table is smaller than file_handle_counter
C39_Counters ==
    [][/\ Consecutive(fuse)
       /\ Consecutive(fuse')
       /\ fuse'.ino_counter >= fuse.ino_counter
       /\ fuLast'.op \notin InoOps =>
             (fuse'.ino_table = fuse.ino_table /\ fuse'.ino_counter = fuse.ino_counter)
       /\ (fuLast'.op = "lookup" /\ fuse'.ino_counter # fuse.ino_counter) =>
             /\ fuse'.ino_counter = fuse.ino_counter + 1
             /\ fuLast'.err = Ok => fuLast'.attr.ino = fuse.ino_counter
       /\ (fuLast'.op = "readdir" /\ fuLast'.err = Ok) =>
             LET es  == fuLast'.entries
                 new == fuse.ino_counter..(fuse'.ino_counter - 1)
             IN  /\ new \subseteq {es[i].ino : i \in 1..Len(es)}
                 /\ \A x, y \in new : x < y => FirstAt(es, x) < FirstAt(es, y)
      ]_vars

\* a readdir that gave new inode numbers to two objects at once, with a file
\* open
C39_Witness ==
    /\ fuLast.op = "readdir" /\ fuLast.err = Ok
    /\ Len(fuLast.entries) >= 2
    /\ fuLast.entries[1].ino = fuse.ino_counter - 2
    /\ fuLast.entries[2].ino = fuse.ino_counter - 1
    /\ fuse.ino_counter >= 4
    /\ DOMAIN fuse.open_file_table # {}

====
